---- MODULE Spec2Model ----
(***************************************************************************)
(* Timeline alignment and audio assembly of the video re-dubbing pipeline. *)
(*                                                                         *)
(* The main specification, Spec, is TTSGenerator.generate of               *)
(* src/video-translator/modules/tts_generator.py: reference extraction,    *)
(* the per-sentence synthesize/align loop, timeline assembly, background   *)
(* mixing and encoding.                                                    *)
(*                                                                         *)
(* Time is counted in ticks of 1/(2*SAMPLE_RATE) second, so that a time    *)
(* may fall between two samples.  A clip is a record                       *)
(*   [dur, voiced, src, how]                                               *)
(* dur: its duration in ticks as ffprobe reports it (0: unparseable or     *)
(* empty), voiced: the ticks of it that are speech (the rest is silence    *)
(* padding), src: the sentence it was made for, how: the step that wrote   *)
(* it.  A sample of the timeline is 0 (the silence the buffer was          *)
(* allocated with), i > 0 (speech of sentence i's clip) or -i (silence     *)
(* that is part of sentence i's clip).  Every byte offset of the code is a *)
(* multiple of SAMPLE_WIDTH, so buffers are indexed by sample.             *)
(***************************************************************************)
EXTENDS Integers, Sequences, FiniteSets, TLC

\* ------------------------------------------------------------- bounds ----
MaxSentences == 2

\* -------------------------------------------------- program constants ----
SAMPLE_RATE == 24000
CLONE_MAX_RETRIES == 5
PRESET_MAX_RETRIES == 10

TicksPerSec == 2 * SAMPLE_RATE
TicksPerSample == TicksPerSec \div SAMPLE_RATE

Min(a, b) == IF a < b THEN a ELSE b
Max(a, b) == IF a > b THEN a ELSE b

\* Python's int() of the quotient n/d (d > 0): truncation toward zero.
PyInt(n, d) == IF n >= 0 THEN n \div d ELSE -((-n) \div d)

\* int(t * SAMPLE_RATE) for a time of t ticks.
ToSamples(t) == PyInt(t * SAMPLE_RATE, TicksPerSec)

\* ceil(t * SAMPLE_RATE) for a time of t >= 0 ticks.
CeilSamples(t) == (t * SAMPLE_RATE + TicksPerSec - 1) \div TicksPerSec

\* ------------------------------------------------------------ inputs -----
\* Sentence windows <<start, end>> in ticks.
Windows == { <<0, 198>>, <<198, 220>>, <<0, 17>>, <<20, 42>>, <<6, 6>> }

\* The translated text of a sentence: "ok" usable, "blank" whitespace only,
\* "failed" absent or carrying the "[FAILED:" marker.
Sentence(w, kind) ==
  [start |-> w[1], end |-> w[2], text |-> kind, text_len |-> 9]

SentencePool ==
  { Sentence(w, "ok") : w \in Windows }
    \cup { Sentence(<<198, 220>>, "blank"), Sentence(<<198, 220>>, "failed") }

SentenceLists ==
  UNION { [1..n -> SentencePool] : n \in 1..MaxSentences }

\* Durations (ticks) of the clips the TTS service may return.
BigClip == 31 * TicksPerSec
ClipDurs == { 0, 8, 20, 220, BigClip }

NoFile == [dur |-> -1, voiced |-> 0, src |-> 0, how |-> "none"]
Clip(d, v, s, h) == [dur |-> d, voiced |-> v, src |-> s, how |-> h]

NoTrack == [samples |-> <<>>, bgm |-> FALSE, exists |-> FALSE]

VARIABLES
  sentences,        \* sentence_info of the translated JSON
  voice_mode,       \* "clone" | "preset"
  keep_background,
  pc,               \* position in generate()
  reference_audio,  \* TRUE: reference.wav extracted and reference_text set
  bgm_path,         \* TRUE: a background track was separated
  i,                \* loop index of the sentence loop (1-based)
  attempt,          \* loop index of the retry loop (0-based)
  requests,         \* TTS requests issued for sentence i
  ever_audio,       \* some request for sentence i returned audio
  synth_ret,        \* "none" | "true" | "false": return of synthesize for i
  duration,         \* synthesize: the duration measured in the latest
                    \*   iteration of the retry loop, -1 if it got no clip
  raw_output,       \* raw_NNN.wav of sentence i, read only in i's iteration
  raw_made,         \* the sentences whose raw_NNN.wav is on disk
  seg_file,         \* segment_NNN.wav per sentence
  audio_segments,   \* [(start_time, final_output)]
  success_count,
  total_duration,
  asm_segments,     \* audio_segments sorted, inside _assemble_audio_timeline
  k,                \* index of the segment being placed
  audio_data,       \* the timeline buffer, one entry per sample
  placed,           \* sentences whose clip was copied into the buffer
  speech_track,     \* speech_only.wav
  mixed_track,      \* with_bgm.wav
  speech_only,      \* the path handed to _convert_to_mp3
  encoded,          \* what _convert_to_mp3 read
  result,           \* "running" | "true" | "false": return of generate()
  al_target,        \* _align_audio_duration alone: target_duration
  al_actual,        \*   the duration of input_file
  al_out,           \*   the clip written to output_file
  ref_pick,         \* the return of _find_best_reference
  stats_failed,     \* stats["failed"] of the script's main()
  translations,     \* the lines parsed from the translation service's reply
  translated,       \* the sentence_info written by the translation step
  tmp_outputs,      \* TRUE: a file made by NamedTemporaryFile is on disk
  full_wave,        \* the buffer of assemble_full_audio (step3_C): per sample
                    \*   the set of clips whose speech was added to it
  target_words,     \* match_timestamps_and_adjust: the word budget
  bgm_len,          \* step3_C: samples of the file at BGM_PATH, 0: no file
  al_out_c,         \* align_audio_to_duration (step3_C) alone: output_file
  session_state,    \* app.py: st.session_state
  uploaded_file,    \* app.py: the file uploader holds a file
  process_args,     \* app.py: the options process_video was called with
  generate_args,    \* app.py: the options continue_after_translation_edit
                    \*   was called with
  app_event,        \* app.py: the user action the latest script run handled
  app_ran           \* app.py: the processing steps the latest script run
                    \*   started, each with the waiting flags at its start

vars == << sentences, voice_mode, keep_background, pc,
           reference_audio, bgm_path, i, attempt, requests, ever_audio,
           synth_ret, duration, raw_output, raw_made, seg_file,
           audio_segments, success_count,
           total_duration, asm_segments, k, audio_data, placed,
           speech_track, mixed_track, speech_only, encoded, result,
           al_target, al_actual, al_out, ref_pick, stats_failed,
           translations, translated, tmp_outputs, full_wave, target_words,
           bgm_len, al_out_c, session_state, uploaded_file, process_args,
           generate_args, app_event, app_ran >>

\* ------------------------------------------------------ pure helpers -----
Duration(s) == s.end - s.start

\* _get_audio_duration: 0 for a missing or unparseable file.
GetAudioDuration(f) == IF f.dur <= 0 THEN 0 ELSE f.dur

\* wav.getnframes() of a clip.
Frames(f) == IF f.dur <= 0 THEN 0 ELSE f.dur \div TicksPerSample

\* The x-th frame (1-based) of a clip.
FrameValue(f, x) ==
  IF (x - 1) * TicksPerSample < f.voiced THEN f.src ELSE -f.src

\* A variant of InBand for the check of C9: the lower limit is exclusive.
InBand_Exclusive(s) ==
  /\ 3 * TicksPerSec < Duration(s)
  /\ Duration(s) <= 6 * TicksPerSec
  /\ s.text_len > 8

\* The filter of _find_best_reference (line 542).
InBand(s) ==
  /\ 3 * TicksPerSec <= Duration(s)
  /\ Duration(s) <= 6 * TicksPerSec
  /\ s.text_len > 8

\* The indices j..Len(ss) of the sentences in the band, in list order
\* (the loop of lines 538-543).
RECURSIVE Candidates(_, _)
Candidates(ss, j) ==
  IF j > Len(ss) THEN <<>>
  ELSE IF InBand(ss[j]) THEN <<j>> \o Candidates(ss, j + 1)
  ELSE Candidates(ss, j + 1)

\* sorted(..., key=duration, reverse=True) over the indices j..Len(ss):
\* stable, so equal durations keep the list order.
InsertDesc(ss, x, acc) ==
  LET n == Cardinality({ m \in 1..Len(acc) :
                           Duration(ss[acc[m]]) >= Duration(ss[x]) })
  IN  SubSeq(acc, 1, n) \o <<x>> \o SubSeq(acc, n + 1, Len(acc))

RECURSIVE SortDesc(_, _, _)
SortDesc(ss, j, acc) ==
  IF j > Len(ss) THEN acc
  ELSE SortDesc(ss, j + 1, InsertDesc(ss, j, acc))

\* _find_best_reference: index of the chosen sentence, 0 for None.
FindBestReference(ss) ==
  LET band == Candidates(ss, 1)
      cand == IF band = <<>>
                THEN SubSeq(SortDesc(ss, 1, <<>>), 1, Min(3, Len(ss)))
                ELSE band
  IN  IF cand = <<>> THEN 0 ELSE cand[1]

\* sorted(audio_segments, key=lambda x: x[0]): a stable sort by start time.
InsertStable(x, acc) ==
  LET n == Cardinality({ j \in 1..Len(acc) : acc[j].start <= x.start })
  IN  SubSeq(acc, 1, n) \o <<x>> \o SubSeq(acc, n + 1, Len(acc))

RECURSIVE SortAcc(_, _)
SortAcc(segs, acc) ==
  IF segs = <<>> THEN acc
  ELSE SortAcc(Tail(segs), InsertStable(Head(segs), acc))

\* A variant of SortByStart for the check of C23: the caller's order is kept.
SortByStart_CallerOrder(segs) == segs

SortByStart(segs) == SortAcc(segs, <<>>)

\* b'\x00\x00' * n: empty for n <= 0.
Zeros(n) == [x \in 1..Max(n, 0) |-> 0]

\* len(frames[:c]) for len(frames) = n: a negative c counts from the end.
SliceLen(n, c) == IF c >= 0 THEN Min(n, c) ELSE Max(n + c, 0)

\* The placement of one clip: the truncation of frames when the copy would
\* run past the end, then the slice assignment audio_data[start:end] = frames
\* (Python clamps the slice bounds to the buffer and replaces the slice by
\* frames, whatever their lengths).
PlaceFrames(buf, s, f) ==
  LET n   == Frames(f)
      L   == Len(buf)
      e   == s + n
      m   == IF e > L THEN SliceLen(n, L - s) ELSE n
      e2  == IF e > L THEN L ELSE e
      lo  == Min(s, L)
      hi  == Max(Min(e2, L), lo)
  IN  [x \in 1..(lo + m + (L - hi)) |->
         IF x <= lo THEN buf[x]
         ELSE IF x <= lo + m THEN FrameValue(f, x - lo)
         ELSE buf[x - lo - m + hi]]


\* ------------------------------------------------------------- state -----
\* The state of the steps modelled on their own.
\* The state of the steps outside the audio pipeline.
appv == << session_state, uploaded_file, process_args, generate_args,
          app_event, app_ran >>
extrav == << target_words, bgm_len, al_out_c, appv >>
auxv == << translations, translated, tmp_outputs, full_wave, extrav >>
otherv == << al_target, al_actual, al_out, ref_pick, stats_failed, auxv >>
rawv == << raw_output, raw_made >>
cfgv == << sentences, voice_mode, keep_background >>
synv == << attempt, requests, ever_audio, synth_ret, duration >>

\* The iteration of sentence i is over: its raw file stays on disk and is
\* not read again.
RawDone ==
  /\ raw_made' = IF raw_output # NoFile THEN raw_made \cup { i } ELSE raw_made
  /\ raw_output' = NoFile

\* The locals of synthesize are gone once its caller has used its return.
SynthGone ==
  /\ attempt' = 0
  /\ requests' = 0
  /\ ever_audio' = FALSE
  /\ synth_ret' = "none"
  /\ duration' = -1
asmv == << total_duration, asm_segments, k, audio_data, placed,
           speech_track, mixed_track, speech_only, encoded >>

\* generate() has not started: its locals and the files of temp_dir.
InitLocals ==
  /\ reference_audio = FALSE
  /\ bgm_path = FALSE
  /\ i = 1
  /\ attempt = 0
  /\ requests = 0
  /\ ever_audio = FALSE
  /\ synth_ret = "none"
  /\ duration = -1
  /\ raw_output = NoFile
  /\ raw_made = {}
  /\ seg_file = [j \in 1..MaxSentences |-> NoFile]
  /\ audio_segments = <<>>
  /\ success_count = 0
  /\ total_duration = 0
  /\ asm_segments = <<>>
  /\ k = 1
  /\ audio_data = <<>>
  /\ placed = {}
  /\ speech_track = NoTrack
  /\ mixed_track = NoTrack
  /\ speech_only = "speech_only.wav"
  /\ encoded = NoTrack
  /\ result = "running"

\* No translation step has run.
NoOutput == <<[src |-> 0, trans |-> 0, start |-> 0, end |-> 0]>>

\* init_session_state (app.py, lines 78-111), the keys the pipeline reads.
InitSessionState ==
  [processing_stage |-> 0,
   video_path |-> FALSE,
   transcript |-> FALSE,
   translation |-> FALSE,
   output_video_path |-> FALSE,
   processing_complete |-> FALSE,
   transcript_edited |-> FALSE,
   translation_edited |-> FALSE,
   waiting_for_transcript_edit |-> FALSE,
   waiting_for_translation_edit |-> FALSE]

\* No call was made yet.
NoArgs ==
  [voice_mode |-> "none", preset_voice |-> "none", bgm_volume |-> 0,
   bitrate |-> "none", add_subs |-> FALSE, sub_style |-> "none",
   keep_audio |-> FALSE]

\* The app after the first script run of a session.
InitAppVars ==
  /\ session_state = InitSessionState
  /\ uploaded_file = FALSE
  /\ process_args = NoArgs
  /\ generate_args = NoArgs
  /\ app_event = "none"
  /\ app_ran = <<>>

InitExtra ==
  /\ target_words = 0
  /\ bgm_len = 0
  /\ al_out_c = NoFile
  /\ InitAppVars

InitAux ==
  /\ translations = <<>>
  /\ translated = NoOutput
  /\ tmp_outputs = FALSE
  /\ full_wave = <<>>
  /\ InitExtra

InitOther ==
  /\ al_target = 0
  /\ al_actual = 0
  /\ al_out = NoFile
  /\ ref_pick = 0
  /\ stats_failed = 0
  /\ InitAux

Init ==
  /\ sentences \in SentenceLists
  /\ voice_mode \in { "clone", "preset" }
  /\ keep_background \in BOOLEAN
  /\ pc = "step1"
  /\ InitLocals
  /\ InitOther

\* ------------------------------------------- generate(): step 1 ----------
\* Lines 161-197.  Whether the original audio is there (orig_exists),
\* separate_vocals, and the outcomes of Demucs and of the ffmpeg extraction
\* are inputs of the step.
Step1 ==
  /\ pc = "step1"
  /\ \E orig_exists \in BOOLEAN, separate_vocals \in BOOLEAN,
        bgm_ok \in BOOLEAN, extract_ok \in BOOLEAN :
       /\ bgm_path' =
            IF ~orig_exists THEN FALSE
            ELSE IF voice_mode = "clone" THEN separate_vocals /\ bgm_ok
            ELSE separate_vocals /\ keep_background /\ bgm_ok
       /\ reference_audio' =
            /\ orig_exists
            /\ voice_mode = "clone"
            /\ FindBestReference(sentences) # 0
            /\ extract_ok
            /\ sentences[FindBestReference(sentences)].text_len > 0
  /\ pc' = "loop"
  /\ UNCHANGED << cfgv, i, synv, rawv, seg_file, audio_segments,
                  success_count, asmv, result >>
  /\ UNCHANGED otherv

\* ------------------------------------------- generate(): the loop --------
Target == Duration(sentences[i])

MaxRetries ==
  IF voice_mode = "clone" THEN CLONE_MAX_RETRIES ELSE PRESET_MAX_RETRIES

\* _create_silence: int(duration * SAMPLE_RATE) zero samples.
SilenceClip(t, s) ==
  Clip(Max(ToSamples(t), 0) * TicksPerSample, 0, s, "silence")

\* Lines 206-214: the sentence is skipped (no usable text).
LoopSkip ==
  /\ pc = "loop"
  /\ i <= Len(sentences)
  /\ sentences[i].text = "failed"
  /\ i' = i + 1
  /\ SynthGone
  /\ UNCHANGED << cfgv, pc, reference_audio, bgm_path, rawv,
                  seg_file, audio_segments, success_count, asmv, result >>
  /\ UNCHANGED otherv

\* Lines 222-223, 232-233: synthesis starts for sentence i.  In preset mode
\* a whitespace-only text makes synthesize return False at once (line 329).
LoopSynth ==
  /\ pc = "loop"
  /\ i <= Len(sentences)
  /\ sentences[i].text # "failed"
  /\ \/ voice_mode = "clone" /\ reference_audio
     \/ voice_mode = "preset"
  /\ attempt' = 0
  /\ requests' = 0
  /\ ever_audio' = FALSE
  /\ duration' = -1
  /\ IF voice_mode = "preset" /\ sentences[i].text = "blank"
       THEN synth_ret' = "false" /\ pc' = "loop" /\ i' = i + 1
       ELSE synth_ret' = "none" /\ pc' = "synth" /\ i' = i
  /\ UNCHANGED << cfgv, reference_audio, bgm_path, rawv, seg_file,
                  audio_segments, success_count, asmv, result >>
  /\ UNCHANGED otherv

\* Lines 242-244: neither branch applies, a silent segment is created.
LoopSilence ==
  /\ pc = "loop"
  /\ i <= Len(sentences)
  /\ sentences[i].text # "failed"
  /\ ~(voice_mode = "clone" /\ reference_audio)
  /\ voice_mode # "preset"
  /\ \E ok \in BOOLEAN :
       IF ok
         THEN /\ seg_file' = [seg_file EXCEPT ![i] = SilenceClip(Target, i)]
              /\ audio_segments' =
                   Append(audio_segments, [start |-> sentences[i].start, idx |-> i])
         ELSE UNCHANGED << seg_file, audio_segments >>
  /\ i' = i + 1
  /\ SynthGone
  /\ UNCHANGED << cfgv, pc, reference_audio, bgm_path, rawv,
                  success_count, asmv, result >>
  /\ UNCHANGED otherv

\* ------------------------------------------- synthesize ------------------
\* One iteration of the retry loop of _generate_with_voice_cloning (lines
\* 578-737) or _generate_with_preset_voice (lines 336-453).

\* A variant of RetryOr for the check of C4: one iteration too many.
RetryOr_OneMore(ret) ==
  IF attempt < MaxRetries
    THEN /\ attempt' = attempt + 1
         /\ synth_ret' = "none"
         /\ pc' = "synth"
         /\ i' = i
    ELSE /\ attempt' = attempt
         /\ synth_ret' = ret
         /\ pc' = IF ret = "true" THEN "align" ELSE "loop"
         /\ i' = IF ret = "true" THEN i ELSE i + 1

\* `continue`, or the return that ends the last iteration.
RetryOr(ret) ==
  IF attempt < MaxRetries - 1
    THEN /\ attempt' = attempt + 1
         /\ synth_ret' = "none"
         /\ pc' = "synth"
         /\ i' = i
    ELSE /\ attempt' = attempt
         /\ synth_ret' = ret
         /\ pc' = IF ret = "true" THEN "align" ELSE "loop"
         /\ i' = IF ret = "true" THEN i ELSE i + 1

Return(ret) ==
  /\ attempt' = attempt
  /\ synth_ret' = ret
  /\ pc' = IF ret = "true" THEN "align" ELSE "loop"
  /\ i' = IF ret = "true" THEN i ELSE i + 1

TooLong(d) == d > 30 * TicksPerSec

\* A variant of RatioOk for the check of C20: the band starts at 0.4.
RatioOk_LowerFourTenths(d, t) == 5 * d >= 2 * t /\ 5 * d <= 11 * t

\* 0.5 <= duration / target_duration <= 2.2
RatioOk(d, t) == 2 * d >= t /\ 5 * d <= 11 * t

\* Whether the generation took too long (generation_time): it is looked at
\* only on the path without a positive target_duration.
SlowInputs == IF Target > 0 THEN { FALSE } ELSE BOOLEAN

\* The request raises (TimeoutError or any other exception).
SynthError ==
  /\ pc = "synth"
  /\ requests' = requests + 1
  /\ duration' = -1
  /\ RetryOr("false")
  /\ IF attempt < MaxRetries - 1 THEN UNCHANGED rawv ELSE RawDone
  /\ UNCHANGED << cfgv, reference_audio, bgm_path, ever_audio,
                  seg_file, audio_segments, success_count, asmv, result >>
  /\ UNCHANGED otherv

\* The response carries no audio.
SynthNoAudio ==
  /\ pc = "synth"
  /\ requests' = requests + 1
  /\ duration' = -1
  /\ RetryOr("false")
  /\ IF attempt < MaxRetries - 1 THEN UNCHANGED rawv ELSE RawDone
  /\ UNCHANGED << cfgv, reference_audio, bgm_path, ever_audio,
                  seg_file, audio_segments, success_count, asmv, result >>
  /\ UNCHANGED otherv

\* Clone mode, the response carries audio of duration d (lines 638-709):
\* it is written to output_path before any check.
SynthAudioClone ==
  /\ pc = "synth"
  /\ voice_mode = "clone"
  /\ \E d \in ClipDurs, slow \in SlowInputs :
       /\ raw_output' = Clip(d, d, i, "tts")
       /\ duration' = d
       /\ IF Target > 0
            THEN IF TooLong(d) THEN RetryOr("true")
                 ELSE IF RatioOk(d, Target) THEN Return("true")
                 ELSE RetryOr("true")
            ELSE IF TooLong(d) /\ attempt < MaxRetries - 1 THEN RetryOr("true")
                 ELSE IF /\ slow
                         /\ (d < TicksPerSec \/ d > 20 * TicksPerSec)
                         /\ attempt < MaxRetries - 1
                        THEN RetryOr("true")
                 ELSE Return("true")
  /\ requests' = requests + 1
  /\ raw_made' = raw_made
  /\ ever_audio' = TRUE
  /\ UNCHANGED << cfgv, reference_audio, bgm_path, seg_file, audio_segments,
                  success_count, asmv, result >>
  /\ UNCHANGED otherv

\* Preset mode, the response carries audio of duration d (lines 369-433):
\* it is written to a temporary file, which is renamed to output_path only
\* on the path without a positive target_duration (line 432).
SynthAudioPreset ==
  /\ pc = "synth"
  /\ voice_mode = "preset"
  /\ \E d \in ClipDurs, slow \in SlowInputs :
       /\ duration' = d
       /\ IF Target > 0
           THEN /\ raw_output' = raw_output
                /\ tmp_outputs' = TRUE
                /\ IF TooLong(d) THEN RetryOr("true")
                   ELSE IF RatioOk(d, Target) THEN Return("true")
                   ELSE RetryOr("true")
           ELSE /\ tmp_outputs' = tmp_outputs
                /\ IF d > 20 * TicksPerSec \/ 2 * d < TicksPerSec
                     THEN raw_output' = raw_output /\ RetryOr("false")
                   ELSE IF slow /\ (d < TicksPerSec \/ d > 15 * TicksPerSec)
                     THEN raw_output' = raw_output /\ RetryOr("false")
                   ELSE /\ raw_output' = Clip(d, d, i, "tts")
                        /\ Return("true")
  /\ requests' = requests + 1
  /\ raw_made' = raw_made
  /\ ever_audio' = TRUE
  /\ UNCHANGED << cfgv, reference_audio, bgm_path, seg_file, audio_segments,
                  success_count, asmv, result, al_target, al_actual, al_out,
                  ref_pick, stats_failed, translations, translated,
                  full_wave, extrav >>


\* ------------------------------------------- align -----------------------
\* A variant of AlignAudioDuration for the check of C18: padding starts
\* at ratio 2.0.
AlignAudioDuration_PadAtTwo(f, t, tool_ok) ==
  LET a == GetAudioDuration(f)
  IN  IF a <= 0 THEN NoFile
      ELSE IF 10 * t >= 9 * a /\ 10 * t <= 11 * a
             THEN Clip(f.dur, f.voiced, f.src, "copy")
      ELSE IF t < 2 * a
             THEN IF t > 0 /\ tool_ok THEN Clip(t, t, f.src, "tempo") ELSE NoFile
      ELSE IF tool_ok THEN Clip(t, a, f.src, "pad") ELSE NoFile

\* A variant of AlignAudioDuration for the check of C3: the band in which
\* a clip is used unchanged is 0.8..1.2.
AlignAudioDuration_LooseBand(f, t, tool_ok) ==
  LET a == GetAudioDuration(f)
  IN  IF a <= 0 THEN NoFile
      ELSE IF 10 * t >= 8 * a /\ 10 * t <= 12 * a
             THEN Clip(f.dur, f.voiced, f.src, "copy")
      ELSE IF 5 * t < 11 * a
             THEN IF t > 0 /\ tool_ok THEN Clip(t, t, f.src, "tempo") ELSE NoFile
      ELSE IF tool_ok THEN Clip(t, a, f.src, "pad") ELSE NoFile

\* _align_audio_duration (lines 457-486) on the clip f with target t ticks;
\* tool_ok is the outcome of the ffmpeg call of the branch taken.  The
\* result is the clip written to output_file, NoFile when it returns False.
\* A successful tempo change or padding is taken to hit its duration
\* exactly.
AlignAudioDuration(f, t, tool_ok) ==
  LET a == GetAudioDuration(f)
  IN  IF a <= 0 THEN NoFile
      ELSE IF 10 * t >= 9 * a /\ 10 * t <= 11 * a
             THEN Clip(f.dur, f.voiced, f.src, "copy")
      ELSE IF 5 * t < 11 * a
             THEN IF t > 0 /\ tool_ok THEN Clip(t, t, f.src, "tempo") ELSE NoFile
      ELSE IF tool_ok THEN Clip(t, a, f.src, "pad") ELSE NoFile

\* Lines 224-228 / 234-238.
Align ==
  /\ pc = "align"
  /\ \E tool_ok \in BOOLEAN :
       LET out == AlignAudioDuration(raw_output, Target, tool_ok)
       IN  IF out # NoFile
             THEN /\ seg_file' = [seg_file EXCEPT ![i] = out]
                  /\ audio_segments' =
                       Append(audio_segments,
                              [start |-> sentences[i].start, idx |-> i])
                  /\ success_count' = success_count + 1
             ELSE UNCHANGED << seg_file, audio_segments, success_count >>
  /\ pc' = "loop"
  /\ i' = i + 1
  /\ SynthGone
  /\ RawDone
  /\ UNCHANGED << cfgv, reference_audio, bgm_path, asmv,
                  result >>
  /\ UNCHANGED otherv

\* ------------------------------------------- assemble --------------------
\* A variant of AssembleStart for the check of C27: assembly starts when
\* the last sentence is reached, not when it is done.
AssembleStart_Early ==
  /\ pc = "loop"
  /\ i >= Len(sentences)
  /\ total_duration' = sentences[Len(sentences)].end
  /\ asm_segments' = SortByStart(audio_segments)
  /\ audio_data' = Zeros(ToSamples(sentences[Len(sentences)].end))
  /\ k' = 1
  /\ pc' = "place"
  /\ SynthGone
  /\ UNCHANGED << cfgv, reference_audio, bgm_path, i, rawv,
                  seg_file, audio_segments, success_count, placed,
                  speech_track, mixed_track, speech_only, encoded, result >>
  /\ UNCHANGED otherv

\* The loop ends (line 249); total_duration (line 251); the sort and the
\* allocation of _assemble_audio_timeline (lines 761-765).
AssembleStart ==
  /\ pc = "loop"
  /\ i > Len(sentences)
  /\ total_duration' = sentences[Len(sentences)].end
  /\ asm_segments' = SortByStart(audio_segments)
  /\ audio_data' = Zeros(ToSamples(sentences[Len(sentences)].end))
  /\ k' = 1
  /\ pc' = "place"
  /\ SynthGone
  /\ UNCHANGED << cfgv, reference_audio, bgm_path, i, rawv,
                  seg_file, audio_segments, success_count, placed,
                  speech_track, mixed_track, speech_only, encoded, result >>
  /\ UNCHANGED otherv

\* One iteration of the placement loop (lines 768-791).  readable = FALSE:
\* the file is missing, has another format, or cannot be read.
Place ==
  /\ pc = "place"
  /\ k <= Len(asm_segments)
  /\ \E readable \in BOOLEAN :
       IF readable
         THEN /\ audio_data' =
                   PlaceFrames(audio_data, ToSamples(asm_segments[k].start),
                               seg_file[asm_segments[k].idx])
              /\ placed' = placed \cup { asm_segments[k].idx }
         ELSE UNCHANGED << audio_data, placed >>
  /\ k' = k + 1
  /\ UNCHANGED << cfgv, pc, reference_audio, bgm_path, i, synv, rawv,
                  seg_file, audio_segments, success_count, total_duration,
                  asm_segments, speech_track, mixed_track, speech_only,
                  encoded, result >>
  /\ UNCHANGED otherv

\* Lines 794-803: speech_only.wav is written, or the write raises and
\* generate() returns False (lines 278-280).
AssembleWrite ==
  /\ pc = "place"
  /\ k > Len(asm_segments)
  /\ \E write_ok \in BOOLEAN :
       IF write_ok
         THEN /\ speech_track' =
                   [samples |-> audio_data, bgm |-> FALSE, exists |-> TRUE]
              /\ pc' = "mix"
              /\ result' = result
         ELSE /\ speech_track' = speech_track
              /\ pc' = "done"
              /\ result' = "false"
  /\ UNCHANGED << cfgv, reference_audio, bgm_path, i, synv, rawv,
                  seg_file, audio_segments, success_count, total_duration,
                  asm_segments, k, audio_data, placed, mixed_track,
                  speech_only, encoded >>
  /\ UNCHANGED otherv

\* ------------------------------------------- mix and encode --------------
\* _mix_audio_with_bgm (amix ... duration=first): the speech track with the
\* background under it, of the speech track's length.
MixAudioWithBgm(speech) ==
  [samples |-> speech.samples, bgm |-> TRUE, exists |-> TRUE]

\* A variant of AfterMix for the check of C10: the mixed path is taken
\* whatever the outcome of the mix.
AfterMix_Always(path, ok) == "with_bgm.wav"

\* The path handed on after a mixing attempt with outcome ok (lines 265-266).
AfterMix(path, ok) == IF ok THEN "with_bgm.wav" ELSE path

\* Lines 261-267, a background track is there and is kept.
MixBackground ==
  /\ pc = "mix"
  /\ keep_background /\ bgm_path
  /\ \E ok \in BOOLEAN :
       /\ mixed_track' = IF ok THEN MixAudioWithBgm(speech_track) ELSE mixed_track
       /\ speech_only' = AfterMix(speech_only, ok)
  /\ pc' = "convert"
  /\ UNCHANGED << cfgv, reference_audio, bgm_path, i, synv, rawv,
                  seg_file, audio_segments, success_count, total_duration,
                  asm_segments, k, audio_data, placed, speech_track, encoded,
                  result >>
  /\ UNCHANGED otherv

\* Line 261 is false: no mixing.
MixSkip ==
  /\ pc = "mix"
  /\ ~(keep_background /\ bgm_path)
  /\ pc' = "convert"
  /\ UNCHANGED << cfgv, reference_audio, bgm_path, i, synv, rawv,
                  seg_file, audio_segments, success_count, asmv, result >>
  /\ UNCHANGED otherv

\* The file at a path of temp_dir.
TrackAt(path) == IF path = "speech_only.wav" THEN speech_track ELSE mixed_track

\* Lines 271-277: encoding, removal of temp_dir, return True.
Convert ==
  /\ pc = "convert"
  /\ encoded' = TrackAt(speech_only)
  /\ raw_output' = NoFile
  /\ raw_made' = {}
  /\ seg_file' = [j \in 1..MaxSentences |-> NoFile]
  /\ speech_track' = NoTrack
  /\ mixed_track' = NoTrack
  /\ result' = "true"
  /\ pc' = "done"
  /\ UNCHANGED << cfgv, reference_audio, bgm_path, i, synv, audio_segments,
                  success_count, total_duration, asm_segments, k, audio_data,
                  placed, speech_only >>
  /\ UNCHANGED otherv

Next ==
  \/ Step1
  \/ LoopSkip
  \/ LoopSynth
  \/ LoopSilence
  \/ SynthError
  \/ SynthNoAudio
  \/ SynthAudioClone
  \/ SynthAudioPreset
  \/ Align
  \/ AssembleStart
  \/ Place
  \/ AssembleWrite
  \/ MixBackground
  \/ MixSkip
  \/ Convert

Spec == Init /\ [][Next]_vars

\* generate() runs to its end: no step waits on anything but the step
\* before it.
FairSpec == Spec /\ WF_vars(Next)


\* =========================================================================
\* step3_generate_audio.py: main()
\* =========================================================================
SCRIPT_MAX_RETRIES == 3

ScriptPool ==
  { Sentence(<<0, 198>>, "ok"), Sentence(<<198, 220>>, "ok"),
    Sentence(<<198, 220>>, "failed") }

ScriptLists == { <<>> } \cup UNION { [1..n -> ScriptPool] : n \in 1..MaxSentences }

InitScript ==
  /\ sentences \in ScriptLists
  /\ voice_mode = "clone"
  /\ keep_background = TRUE
  /\ pc = "m_start"
  /\ InitLocals
  /\ InitOther

\* Lines 346-406: the JSON is loaded, the original audio is looked for, the
\* reference is chosen and extracted; each failure returns.
MainStart ==
  /\ pc = "m_start"
  /\ \E loaded \in BOOLEAN, orig_exists \in BOOLEAN, extract_ok \in BOOLEAN :
       IF /\ loaded /\ orig_exists
          /\ sentences # <<>>
          /\ FindBestReference(sentences) # 0
          /\ extract_ok
         THEN /\ total_duration' = sentences[Len(sentences)].end
              /\ ref_pick' = FindBestReference(sentences)
              /\ reference_audio' = TRUE
              /\ pc' = "m_loop"
         ELSE /\ pc' = "m_return"
              /\ UNCHANGED << total_duration, ref_pick, reference_audio >>
  /\ UNCHANGED << cfgv, bgm_path, i, synv, rawv, seg_file, audio_segments,
                  success_count, asm_segments, k, audio_data, placed,
                  speech_track, mixed_track, speech_only, encoded, result,
                  al_target, al_actual, al_out, stats_failed, auxv >>

\* Lines 423-425: no text_en, or the "[FAILED:" marker.
MainSkip ==
  /\ pc = "m_loop"
  /\ i <= Len(sentences)
  /\ sentences[i].text = "failed"
  /\ i' = i + 1
  /\ UNCHANGED << cfgv, pc, reference_audio, bgm_path, synv, rawv, seg_file,
                  audio_segments, success_count, asmv, result, otherv >>

\* Line 434: generate_with_voice_cloning is called.
MainSynth ==
  /\ pc = "m_loop"
  /\ i <= Len(sentences)
  /\ sentences[i].text # "failed"
  /\ pc' = "m_synth"
  /\ UNCHANGED << cfgv, reference_audio, bgm_path, i, synv, rawv, seg_file,
                  audio_segments, success_count, asmv, result, otherv >>

\* generate_with_voice_cloning returned False (lines 473-474).
MainFailed ==
  /\ stats_failed' = stats_failed + 1
  /\ pc' = "m_loop"
  /\ i' = i + 1
  /\ attempt' = 0
  /\ requests' = 0
  /\ ever_audio' = FALSE
  /\ synth_ret' = "none"
  /\ duration' = -1
  /\ RawDone

\* Lines 153-159: the request raises.
MainSynthError ==
  /\ pc = "m_synth"
  /\ IF attempt < SCRIPT_MAX_RETRIES - 1
       THEN /\ attempt' = attempt + 1
            /\ requests' = requests + 1
            /\ UNCHANGED << pc, i, ever_audio, synth_ret, duration, rawv,
                            stats_failed >>
       ELSE MainFailed
  /\ UNCHANGED << cfgv, reference_audio, bgm_path, seg_file, audio_segments,
                  success_count, asmv, result,
                  al_target, al_actual, al_out, ref_pick, auxv >>

\* Line 151: the response carries no audio, False is returned at once.
MainSynthNoAudio ==
  /\ pc = "m_synth"
  /\ MainFailed
  /\ UNCHANGED << cfgv, reference_audio, bgm_path, seg_file, audio_segments,
                  success_count, asmv, result,
                  al_target, al_actual, al_out, ref_pick, auxv >>

\* Lines 130-149: the response carries audio of duration d.
MainSynthAudio ==
  /\ pc = "m_synth"
  /\ \E d \in ClipDurs :
       /\ raw_output' = Clip(d, d, i, "tts")
       /\ IF TooLong(d) /\ attempt < SCRIPT_MAX_RETRIES - 1
            THEN /\ attempt' = attempt + 1
                 /\ UNCHANGED << pc, synth_ret >>
            ELSE /\ attempt' = attempt
                 /\ synth_ret' = "true"
                 /\ pc' = "m_check"
  /\ requests' = requests + 1
  /\ ever_audio' = TRUE
  /\ UNCHANGED << cfgv, reference_audio, bgm_path, i, duration, raw_made,
                  seg_file,
                  audio_segments, success_count, asmv, result, otherv >>

\* ffmpeg -ss s [-t n] -acodec copy; `if duration:` leaves -t out for 0.
ExtractAudioSegment(f, s, n) ==
  LET cut(x) == IF n = 0 THEN Max(x - s, 0) ELSE Max(Min(x - s, n), 0)
  IN  Clip(cut(f.dur), cut(f.voiced), f.src, "cut")

\* 0.3 s
RefMargin == (3 * TicksPerSec) \div 10

\* check_and_process_audio (lines 163-218); ok1 and ok2 are the outcomes of
\* its first and second ffmpeg call.
CheckAndProcessAudio(f, ref, t, ok1, ok2) ==
  LET a == GetAudioDuration(f)
      first == ExtractAudioSegment(f, Max(ref - RefMargin, 0), 0)
  IN  IF a = 0 THEN NoFile
      ELSE IF a > 10 * t
             THEN IF ok1 THEN ExtractAudioSegment(f, 0, (3 * t) \div 2)
                  ELSE NoFile
      ELSE IF 2 * a > 2 * ref + t
             THEN IF ~ok1 THEN NoFile
                  ELSE IF first.dur > 3 * t /\ ok2
                         THEN ExtractAudioSegment(first, 0, (3 * t) \div 2)
                  ELSE first
      ELSE Clip(f.dur, f.voiced, f.src, "copy")

\* Lines 435-472.
MainCheck ==
  /\ pc = "m_check"
  /\ \E ok1 \in BOOLEAN, ok2 \in BOOLEAN :
       LET out == CheckAndProcessAudio(raw_output,
                                       Duration(sentences[ref_pick]),
                                       Target, ok1, ok2)
       IN  IF out = NoFile
             THEN /\ stats_failed' = stats_failed + 1
                  /\ RawDone
                  /\ UNCHANGED << seg_file, audio_segments, success_count >>
           ELSE IF out.dur > 5 * Target
             THEN /\ stats_failed' = stats_failed + 1
                  /\ raw_output' = NoFile
                  /\ UNCHANGED << raw_made, seg_file, audio_segments,
                                  success_count >>
           ELSE /\ seg_file' = [seg_file EXCEPT ![i] = out]
                /\ audio_segments' =
                     Append(audio_segments,
                            [start |-> sentences[i].start, idx |-> i])
                /\ success_count' = success_count + 1
                /\ raw_output' = NoFile
                /\ UNCHANGED << raw_made, stats_failed >>
  /\ pc' = "m_loop"
  /\ i' = i + 1
  /\ SynthGone
  /\ UNCHANGED << cfgv, reference_audio, bgm_path, asmv, result,
                  al_target, al_actual, al_out, ref_pick, auxv >>

\* Lines 486-488: no segment was made, main() returns.
MainNoSegments ==
  /\ pc = "m_loop"
  /\ i > Len(sentences)
  /\ audio_segments = <<>>
  /\ pc' = "m_return"
  /\ UNCHANGED << cfgv, reference_audio, bgm_path, i, synv, rawv, seg_file,
                  audio_segments, success_count, asmv, result, otherv >>

\* Line 497 and assemble_audio_timeline, lines 254-263.
MainAssembleStart ==
  /\ pc = "m_loop"
  /\ i > Len(sentences)
  /\ audio_segments # <<>>
  /\ asm_segments' = SortByStart(audio_segments)
  /\ audio_data' = Zeros(ToSamples(total_duration))
  /\ k' = 1
  /\ pc' = "m_place"
  /\ UNCHANGED << cfgv, reference_audio, bgm_path, i, synv, rawv, seg_file,
                  audio_segments, success_count, total_duration, placed,
                  speech_track, mixed_track, speech_only, encoded, result,
                  otherv >>

\* One iteration of the placement loop (lines 266-299).
MainPlace ==
  /\ pc = "m_place"
  /\ k <= Len(asm_segments)
  /\ \E readable \in BOOLEAN :
       IF readable
         THEN /\ audio_data' =
                   PlaceFrames(audio_data, ToSamples(asm_segments[k].start),
                               seg_file[asm_segments[k].idx])
              /\ placed' = placed \cup { asm_segments[k].idx }
         ELSE UNCHANGED << audio_data, placed >>
  /\ k' = k + 1
  /\ UNCHANGED << cfgv, pc, reference_audio, bgm_path, i, synv, rawv,
                  seg_file, audio_segments, success_count, total_duration,
                  asm_segments, speech_track, mixed_track, speech_only,
                  encoded, result, otherv >>

\* Lines 301-314: the file is written, or the write raises and main() ends
\* at line 552.
MainAssembleWrite ==
  /\ pc = "m_place"
  /\ k > Len(asm_segments)
  /\ \E write_ok \in BOOLEAN :
       IF write_ok
         THEN /\ speech_track' =
                   [samples |-> audio_data, bgm |-> FALSE, exists |-> TRUE]
              /\ pc' = "m_bgm"
         ELSE /\ speech_track' = speech_track
              /\ pc' = "m_return"
  /\ UNCHANGED << cfgv, reference_audio, bgm_path, i, synv, rawv, seg_file,
                  audio_segments, success_count, total_duration,
                  asm_segments, k, audio_data, placed, mixed_track,
                  speech_only, encoded, result, otherv >>

\* Lines 502-527: the background question, its extraction, the volume
\* (float() raises on text that is no number) and the mix.
MainBgm ==
  /\ pc = "m_bgm"
  /\ \E add_bgm \in BOOLEAN, extract_ok \in BOOLEAN,
        volume_ok \in BOOLEAN, mix_ok \in BOOLEAN :
       /\ bgm_path' = (add_bgm /\ extract_ok)
       /\ IF add_bgm /\ extract_ok /\ ~volume_ok
            THEN /\ pc' = "m_raise"
                 /\ encoded' = encoded
            ELSE /\ pc' = "m_done"
                 /\ encoded' =
                      IF add_bgm /\ extract_ok /\ mix_ok
                        THEN MixAudioWithBgm(speech_track)
                        ELSE speech_track
  /\ UNCHANGED << cfgv, reference_audio, i, synv, rawv, seg_file,
                  audio_segments, success_count, total_duration,
                  asm_segments, k, audio_data, placed, speech_track,
                  mixed_track, speech_only, result, otherv >>

NextScript ==
  \/ MainStart
  \/ MainSkip
  \/ MainSynth
  \/ MainSynthError
  \/ MainSynthNoAudio
  \/ MainSynthAudio
  \/ MainCheck
  \/ MainNoSegments
  \/ MainAssembleStart
  \/ MainPlace
  \/ MainAssembleWrite
  \/ MainBgm

SpecScript == InitScript /\ [][NextScript]_vars

\* ------------------------------------------- the aligner alone -----------
MaxAlignTicks == 24

InitAlign ==
  /\ sentences = <<>>
  /\ voice_mode = "preset"
  /\ keep_background = FALSE
  /\ pc = "al_ready"
  /\ InitLocals
  /\ al_target \in (-2)..MaxAlignTicks
  /\ al_actual \in 0..MaxAlignTicks
  /\ al_out = NoFile
  /\ ref_pick = 0
  /\ stats_failed = 0
  /\ InitAux

\* One call of _align_audio_duration on a clip of al_actual ticks.
AlignAlone ==
  /\ pc = "al_ready"
  /\ \E tool_ok \in BOOLEAN :
       al_out' = AlignAudioDuration(Clip(al_actual, al_actual, 1, "tts"),
                                    al_target, tool_ok)
  /\ pc' = "al_done"
  /\ UNCHANGED << cfgv, reference_audio, bgm_path, i, synv, rawv, seg_file,
                  audio_segments, success_count, asmv, result, al_target,
                  al_actual, ref_pick, stats_failed, auxv >>

NextAlign == AlignAlone

SpecAlign == InitAlign /\ [][NextAlign]_vars

\* align_audio_to_duration of step3_C_align_audio.py (lines 56-84) on the
\* clip f with target t ticks: the clip at output_file afterwards.  The
\* ffmpeg calls run without check=True: when the tool fails no file is
\* written and True is returned.
AlignAudioToDuration(f, t, tool_ok) ==
  LET a == GetAudioDuration(f)
  IN  IF a <= 0 THEN NoFile
      ELSE IF 10 * t >= 9 * a /\ 10 * t <= 11 * a
             THEN Clip(f.dur, f.voiced, f.src, "rename")
      ELSE IF 10 * t > 11 * a /\ t < 2 * a
             THEN IF tool_ok THEN Clip(t, t, f.src, "tempo") ELSE NoFile
      ELSE IF 10 * t < 9 * a /\ 2 * t > a
             THEN IF tool_ok THEN Clip(t, t, f.src, "tempo") ELSE NoFile
      ELSE IF t >= 2 * a
             THEN IF tool_ok THEN Clip(t, a, f.src, "pad") ELSE NoFile
      ELSE Clip(f.dur, f.voiced, f.src, "rename")

\* One call of align_audio_to_duration on the clip and target that
\* _align_audio_duration was called with.
AlignToDurationAlone ==
  /\ pc = "al_done"
  /\ \E tool_ok \in BOOLEAN :
       al_out_c' = AlignAudioToDuration(Clip(al_actual, al_actual, 1, "tts"),
                                        al_target, tool_ok)
  /\ pc' = "al_both"
  /\ UNCHANGED << cfgv, reference_audio, bgm_path, i, synv, rawv, seg_file,
                  audio_segments, success_count, asmv, result, al_target,
                  al_actual, al_out, ref_pick, stats_failed, translations,
                  translated, tmp_outputs, full_wave, target_words, bgm_len,
                  appv >>

NextAligners ==
  \/ AlignAlone
  \/ AlignToDurationAlone

SpecAligners == InitAlign /\ [][NextAligners]_vars

\* ------------------------------------------- the reference selector alone
MaxRefSentences == 3

RefDurs ==
  { 3 * TicksPerSec - 1, 3 * TicksPerSec, 6 * TicksPerSec,
    6 * TicksPerSec + 1, 7 * TicksPerSec }

RefPool ==
  { [start |-> 0, end |-> d, text |-> "ok", text_len |-> n] :
      d \in RefDurs, n \in { 8, 9 } }

InitRef ==
  /\ sentences \in UNION { [1..n -> RefPool] : n \in 1..MaxRefSentences }
  /\ voice_mode = "clone"
  /\ keep_background = FALSE
  /\ pc = "ref_ready"
  /\ InitLocals
  /\ InitOther

\* One call of _find_best_reference (line 178).
PickReference ==
  /\ pc = "ref_ready"
  /\ ref_pick' = FindBestReference(sentences)
  /\ pc' = "ref_done"
  /\ UNCHANGED << cfgv, reference_audio, bgm_path, i, synv, rawv, seg_file,
                  audio_segments, success_count, asmv, result, al_target,
                  al_actual, al_out, stats_failed, auxv >>

NextRef == PickReference

SpecRef == InitRef /\ [][NextRef]_vars


\* ------------------------------------------- the assembler alone ---------
\* _assemble_audio_timeline called on its own: total_duration and the
\* segment list are arguments, any number and any list.
MaxAsmSegments == 2

AsmTotals == { -3, -1, 0, 9, 16 }

AsmStarts == { 0, 8, 24 }

AsmClips == { 8, 16 }

AsmLists ==
  UNION { [1..n -> AsmStarts \X AsmClips] : n \in 1..MaxAsmSegments }

InitAsm ==
  /\ sentences = <<>>
  /\ voice_mode = "clone"
  /\ keep_background = FALSE
  /\ pc = "as_ready"
  /\ reference_audio = FALSE
  /\ bgm_path = FALSE
  /\ i = 1
  /\ attempt = 0
  /\ requests = 0
  /\ ever_audio = FALSE
  /\ synth_ret = "none"
  /\ duration = -1
  /\ raw_output = NoFile
  /\ raw_made = {}
  /\ success_count = 0
  /\ total_duration \in AsmTotals
  /\ \E l \in AsmLists :
       /\ audio_segments = [j \in 1..Len(l) |-> [start |-> l[j][1], idx |-> j]]
       /\ seg_file = [j \in 1..MaxSentences |->
                        IF j <= Len(l) THEN Clip(l[j][2], l[j][2], j, "copy")
                        ELSE NoFile]
  /\ asm_segments = <<>>
  /\ k = 1
  /\ audio_data = <<>>
  /\ placed = {}
  /\ speech_track = NoTrack
  /\ mixed_track = NoTrack
  /\ speech_only = "speech_only.wav"
  /\ encoded = NoTrack
  /\ result = "running"
  /\ InitOther

\* Lines 759-765: the sort and the allocation.
AsmStart ==
  /\ pc = "as_ready"
  /\ asm_segments' = SortByStart(audio_segments)
  /\ audio_data' = Zeros(ToSamples(total_duration))
  /\ k' = 1
  /\ pc' = "as_place"
  /\ UNCHANGED << cfgv, reference_audio, bgm_path, i, synv, rawv, seg_file,
                  audio_segments, success_count, total_duration, placed,
                  speech_track, mixed_track, speech_only, encoded, result,
                  otherv >>

\* One iteration of the placement loop (lines 768-791).
AsmPlace ==
  /\ pc = "as_place"
  /\ k <= Len(asm_segments)
  /\ \E readable \in BOOLEAN :
       IF readable
         THEN /\ audio_data' =
                   PlaceFrames(audio_data, ToSamples(asm_segments[k].start),
                               seg_file[asm_segments[k].idx])
              /\ placed' = placed \cup { asm_segments[k].idx }
         ELSE UNCHANGED << audio_data, placed >>
  /\ k' = k + 1
  /\ UNCHANGED << cfgv, pc, reference_audio, bgm_path, i, synv, rawv,
                  seg_file, audio_segments, success_count, total_duration,
                  asm_segments, speech_track, mixed_track, speech_only,
                  encoded, result, otherv >>

\* Lines 793-803: the file is written and True returned, or the write raises
\* and False is returned.
AsmWrite ==
  /\ pc = "as_place"
  /\ k > Len(asm_segments)
  /\ \E write_ok \in BOOLEAN :
       IF write_ok
         THEN /\ speech_track' =
                   [samples |-> audio_data, bgm |-> FALSE, exists |-> TRUE]
              /\ result' = "true"
         ELSE /\ speech_track' = speech_track
              /\ result' = "false"
  /\ pc' = "as_done"
  /\ UNCHANGED << cfgv, reference_audio, bgm_path, i, synv, rawv, seg_file,
                  audio_segments, success_count, total_duration,
                  asm_segments, k, audio_data, placed, mixed_track,
                  speech_only, encoded, otherv >>

\* The placement loop of lines 768-791 as a function: the clips of the
\* segments segs[j..], those of the readable files only, placed in list
\* order into buf.
RECURSIVE PlaceAll(_, _, _, _)
PlaceAll(segs, j, readable, buf) ==
  IF j > Len(segs) THEN buf
  ELSE PlaceAll(segs, j + 1, readable,
                IF segs[j].idx \in readable
                  THEN PlaceFrames(buf, ToSamples(segs[j].start),
                                   seg_file[segs[j].idx])
                  ELSE buf)

\* _assemble_audio_timeline(segs, total, ...): the samples it writes.
AssembleAudioTimeline(segs, total, readable) ==
  PlaceAll(SortByStart(segs), 1, readable, Zeros(ToSamples(total)))

NextAsm ==
  \/ AsmStart
  \/ AsmPlace
  \/ AsmWrite

SpecAsm == InitAsm /\ [][NextAsm]_vars


\* =========================================================================
\* step3_B_generate_audio.py: main() and generate_female_voice
\* =========================================================================
FEMALE_MAX_RETRIES == 10

FemalePool ==
  { Sentence(<<0, 198>>, "ok"), Sentence(<<198, 220>>, "ok"),
    Sentence(<<198, 220>>, "blank") }

FemaleLists ==
  { <<>> } \cup UNION { [1..n -> FemalePool] : n \in 1..MaxSentences }

\* The kinds of exception the handler of lines 99-110 tells apart.
FemaleErrors == { "timeout", "busy", "other" }

InitFemale ==
  /\ sentences \in FemaleLists
  /\ voice_mode = "preset"
  /\ keep_background = FALSE
  /\ pc = "b_start"
  /\ InitLocals
  /\ InitOther

\* Lines 122-132: the input file is looked for and loaded.
FemaleStart ==
  /\ pc = "b_start"
  /\ \E input_exists \in BOOLEAN :
       pc' = IF input_exists THEN "b_loop" ELSE "b_return"
  /\ UNCHANGED << cfgv, reference_audio, bgm_path, i, synv, rawv, seg_file,
                  audio_segments, success_count, asmv, result, otherv >>

\* Lines 135-139: a sentence without text_en.
FemaleSkip ==
  /\ pc = "b_loop"
  /\ i <= Len(sentences)
  /\ sentences[i].text = "blank"
  /\ i' = i + 1
  /\ UNCHANGED << cfgv, pc, reference_audio, bgm_path, synv, rawv, seg_file,
                  audio_segments, success_count, asmv, result, otherv >>

\* Lines 144-145 and 42-48: generate_female_voice is entered.
FemaleCall ==
  /\ pc = "b_loop"
  /\ i <= Len(sentences)
  /\ sentences[i].text # "blank"
  /\ attempt' = 0
  /\ requests' = 0
  /\ ever_audio' = FALSE
  /\ pc' = "fv_loop"
  /\ UNCHANGED << cfgv, reference_audio, bgm_path, i, synth_ret, duration,
                  rawv, seg_file, audio_segments, success_count, asmv,
                  result, otherv >>

\* generate_female_voice returns ok (lines 145-151).
FemaleReturn(ok) ==
  /\ synth_ret' = IF ok THEN "true" ELSE "false"
  /\ success_count' = IF ok THEN success_count + 1 ELSE success_count
  /\ stats_failed' = IF ok THEN stats_failed ELSE stats_failed + 1
  /\ i' = i + 1
  /\ pc' = "b_loop"

\* Lines 49-79: a request whose response carries no audio.
FemaleNoAudio ==
  /\ pc = "fv_loop"
  /\ attempt < FEMALE_MAX_RETRIES
  /\ attempt' = attempt + 1
  /\ requests' = requests + 1
  /\ UNCHANGED << cfgv, pc, reference_audio, bgm_path, i, ever_audio,
                  synth_ret, duration, rawv, seg_file, audio_segments, success_count,
                  asmv, result, otherv >>

\* Lines 49-97: a request whose response carries audio of duration d.
FemaleAudio ==
  /\ pc = "fv_loop"
  /\ attempt < FEMALE_MAX_RETRIES
  /\ attempt' = attempt + 1
  /\ requests' = requests + 1
  /\ ever_audio' = TRUE
  /\ \E d \in { 0, TicksPerSec, 20 * TicksPerSec, BigClip } :
       IF d > 20 * TicksPerSec \/ d < TicksPerSec
         THEN UNCHANGED << pc, i, synth_ret, seg_file, success_count,
                           stats_failed >>
         ELSE /\ seg_file' = [seg_file EXCEPT ![i] = Clip(d, d, i, "tts")]
              /\ FemaleReturn(TRUE)
  /\ UNCHANGED << cfgv, reference_audio, bgm_path, duration, rawv,
                  audio_segments, asmv, result, al_target, al_actual, al_out,
                  ref_pick, auxv >>

\* Lines 49-99: the request raises an exception of kind e.
FemaleError ==
  /\ pc = "fv_loop"
  /\ attempt < FEMALE_MAX_RETRIES
  /\ attempt' = attempt + 1
  /\ requests' = requests + 1
  /\ \E e \in FemaleErrors : pc' = "fv_except_" \o e
  /\ UNCHANGED << cfgv, reference_audio, bgm_path, i, ever_audio, synth_ret,
                  duration, rawv, seg_file, audio_segments, success_count, asmv,
                  result, otherv >>

\* Lines 102-107: a timeout or a busy server, the loop goes on.
FemaleExceptRetry ==
  /\ pc \in { "fv_except_timeout", "fv_except_busy" }
  /\ pc' = "fv_loop"
  /\ UNCHANGED << cfgv, reference_audio, bgm_path, i, synv, rawv, seg_file,
                  audio_segments, success_count, asmv, result, otherv >>

\* Lines 108-110: any other exception, False is returned.
FemaleExceptStop ==
  /\ pc = "fv_except_other"
  /\ FemaleReturn(FALSE)
  /\ UNCHANGED << cfgv, reference_audio, bgm_path, attempt, requests,
                  ever_audio, duration, rawv, seg_file, audio_segments, asmv, result,
                  al_target, al_actual, al_out, ref_pick, auxv >>

\* Lines 112-113: the loop ran out.
FemaleExhausted ==
  /\ pc = "fv_loop"
  /\ attempt >= FEMALE_MAX_RETRIES
  /\ FemaleReturn(FALSE)
  /\ UNCHANGED << cfgv, reference_audio, bgm_path, attempt, requests,
                  ever_audio, duration, rawv, seg_file, audio_segments, asmv, result,
                  al_target, al_actual, al_out, ref_pick, auxv >>

\* Lines 153-158: the statistics are printed.
FemaleEnd ==
  /\ pc = "b_loop"
  /\ i > Len(sentences)
  /\ pc' = "b_done"
  /\ UNCHANGED << cfgv, reference_audio, bgm_path, i, synv, rawv, seg_file,
                  audio_segments, success_count, asmv, result, otherv >>

NextFemale ==
  \/ FemaleStart
  \/ FemaleSkip
  \/ FemaleCall
  \/ FemaleNoAudio
  \/ FemaleAudio
  \/ FemaleError
  \/ FemaleExceptRetry
  \/ FemaleExceptStop
  \/ FemaleExhausted
  \/ FemaleEnd

SpecFemale == InitFemale /\ [][NextFemale]_vars


\* =========================================================================
\* The translation step: Translator.translate and step2_translate.py
\* =========================================================================
\* Source sentences: a usable one, one of duration 0, one whose end lies
\* before its start, one without text.
TrPool ==
  { Sentence(<<0, 198>>, "ok"), Sentence(<<6, 6>>, "ok"),
    Sentence(<<42, 20>>, "ok"), Sentence(<<198, 220>>, "blank") }

\* The reply of the service, parsed into lines: line n is named n.
TrReplies == { [n \in 1..m |-> n] : m \in 0..(MaxSentences + 1) }

InitTranslate ==
  /\ sentences \in UNION { [1..n -> TrPool] : n \in 1..MaxSentences }
  /\ voice_mode = "preset"
  /\ keep_background = FALSE
  /\ pc = "tr_ready"
  /\ InitLocals
  /\ al_target = 0
  /\ al_actual = 0
  /\ al_out = NoFile
  /\ ref_pick = 0
  /\ stats_failed = 0
  /\ translations \in TrReplies
  /\ translated = NoOutput
  /\ tmp_outputs = FALSE
  /\ full_wave = <<>>
  /\ InitExtra

\* The "Build output" loop of Translator.translate (lines 132-148): one
\* record per source sentence, src its index in the source list.
BuildOutput(ss, tr) ==
  [j \in 1..Len(ss) |->
     [src |-> j, trans |-> IF j <= Len(tr) THEN tr[j] ELSE 0,
      start |-> ss[j].start, end |-> ss[j].end]]

\* The loop of match_timestamps_and_adjust (lines 238-314) from index j on.
RECURSIVE MatchFrom(_, _, _)
MatchFrom(ss, tr, j) ==
  IF j > Min(Len(ss), Len(tr)) THEN <<>>
  ELSE IF ss[j].text = "blank" \/ Duration(ss[j]) <= 0
         THEN MatchFrom(ss, tr, j + 1)
  ELSE << [src |-> j, trans |-> tr[j],
           start |-> ss[j].start, end |-> ss[j].end] >>
       \o MatchFrom(ss, tr, j + 1)

MatchTimestampsAndAdjust(ss, tr) == MatchFrom(ss, tr, 1)

\* Translator.translate (lines 97-154): no line at all is a failure.
TranslateModule ==
  /\ pc = "tr_ready"
  /\ IF translations = <<>>
       THEN /\ translated' = translated
            /\ pc' = "tr_failed"
       ELSE /\ translated' = BuildOutput(sentences, translations)
            /\ pc' = "tr_module_done"
  /\ UNCHANGED << cfgv, reference_audio, bgm_path, i, synv, rawv, seg_file,
                  audio_segments, success_count, asmv, result, al_target,
                  al_actual, al_out, ref_pick, stats_failed, translations,
                  tmp_outputs, full_wave, extrav >>

\* main() of step2_translate.py (lines 334-367).
TranslateScript ==
  /\ pc = "tr_ready"
  /\ IF translations = <<>>
       THEN /\ translated' = translated
            /\ pc' = "tr_failed"
       ELSE /\ translated' = MatchTimestampsAndAdjust(sentences, translations)
            /\ pc' = "tr_script_done"
  /\ UNCHANGED << cfgv, reference_audio, bgm_path, i, synv, rawv, seg_file,
                  audio_segments, success_count, asmv, result, al_target,
                  al_actual, al_out, ref_pick, stats_failed, translations,
                  tmp_outputs, full_wave, extrav >>

NextTranslate ==
  \/ TranslateModule
  \/ TranslateScript

SpecTranslate == InitTranslate /\ [][NextTranslate]_vars


\* =========================================================================
\* step3_C_align_audio.py: assemble_full_audio
\* =========================================================================
\* Sentence windows of the aligned clips, some of them overlapping.
FullAudioWindows == { <<0, 16>>, <<8, 24>>, <<16, 32>>, <<40, 48>> }

\* The durations of the aligned_NN.wav files; -1: the file is missing.
FullAudioClips == { -1, 8, 24 }

FullAudioInputs ==
  UNION { [1..n -> FullAudioWindows \X FullAudioClips] : n \in 1..MaxSentences }

\* The length in samples of the file at BGM_PATH; 0: there is no file.
FullAudioBgm == { 0, 4, 40 }

InitFullAudio ==
  /\ \E l \in FullAudioInputs :
       /\ sentences = [j \in 1..Len(l) |-> Sentence(l[j][1], "ok")]
       /\ seg_file = [j \in 1..MaxSentences |->
                        IF j <= Len(l) /\ l[j][2] > 0
                          THEN Clip(l[j][2], l[j][2], j, "aligned")
                          ELSE NoFile]
  /\ voice_mode = "preset"
  /\ keep_background = FALSE
  /\ pc = "fa_ready"
  /\ reference_audio = FALSE
  /\ bgm_path = FALSE
  /\ i = 1
  /\ attempt = 0
  /\ requests = 0
  /\ ever_audio = FALSE
  /\ synth_ret = "none"
  /\ duration = -1
  /\ raw_output = NoFile
  /\ raw_made = {}
  /\ audio_segments = <<>>
  /\ success_count = 0
  /\ total_duration = 0
  /\ asm_segments = <<>>
  /\ k = 1
  /\ audio_data = <<>>
  /\ placed = {}
  /\ speech_track = NoTrack
  /\ mixed_track = NoTrack
  /\ speech_only = "speech_only.wav"
  /\ encoded = NoTrack
  /\ result = "running"
  /\ al_target = 0
  /\ al_actual = 0
  /\ al_out = NoFile
  /\ ref_pick = 0
  /\ stats_failed = 0
  /\ translations = <<>>
  /\ translated = NoOutput
  /\ tmp_outputs = FALSE
  /\ full_wave = <<>>
  /\ target_words = 0
  /\ bgm_len \in FullAudioBgm
  /\ al_out_c = NoFile
  /\ InitAppVars

\* Lines 88-90: np.zeros(total_samples).
FullAudioStart ==
  /\ pc = "fa_ready"
  /\ total_duration' = sentences[Len(sentences)].end
  /\ full_wave' =
       [x \in 1..Max(ToSamples(sentences[Len(sentences)].end), 0) |-> {}]
  /\ i' = 1
  /\ pc' = "fa_place"
  /\ UNCHANGED << cfgv, reference_audio, bgm_path, synv, rawv, seg_file,
                  audio_segments, success_count, asm_segments, k, audio_data,
                  placed, speech_track, mixed_track, speech_only, encoded,
                  result, al_target, al_actual, al_out, ref_pick,
                  stats_failed, translations, translated, tmp_outputs,
                  extrav >>

\* full_wave[start_idx:end_idx] += data[:end_idx - start_idx] for the clip f
\* at sample s <= len(full_wave).
AddFrames(buf, s, f) ==
  LET e == Min(s + Frames(f), Len(buf))
  IN  [x \in 1..Len(buf) |->
         IF x > s /\ x <= e /\ FrameValue(f, x - s) > 0
           THEN buf[x] \cup { FrameValue(f, x - s) }
           ELSE buf[x]]

\* One iteration of the loop of lines 94-111.  A start beyond the buffer
\* leaves an empty slice on the left and data[:negative] on the right, and
\* numpy raises unless fewer than two samples are left on the right.
FullAudioPlace ==
  /\ pc = "fa_place"
  /\ i <= Len(sentences)
  /\ LET f == seg_file[i]
         s == ToSamples(sentences[i].start)
     IN  \E rate_ok \in BOOLEAN :
           IF f = NoFile \/ ~rate_ok
             THEN /\ i' = i + 1
                  /\ UNCHANGED << pc, full_wave, placed >>
           ELSE IF s > Len(full_wave) /\ SliceLen(Frames(f), Len(full_wave) - s) > 1
             THEN /\ pc' = "fa_raise"
                  /\ UNCHANGED << i, full_wave, placed >>
           ELSE /\ full_wave' =
                     IF s > Len(full_wave) THEN full_wave
                     ELSE AddFrames(full_wave, s, f)
                /\ placed' = placed \cup { i }
                /\ i' = i + 1
                /\ pc' = pc
  /\ UNCHANGED << cfgv, reference_audio, bgm_path, synv, rawv, seg_file,
                  audio_segments, success_count, total_duration,
                  asm_segments, k, audio_data, speech_track, mixed_track,
                  speech_only, encoded, result, al_target, al_actual, al_out,
                  ref_pick, stats_failed, translations, translated,
                  tmp_outputs, extrav >>

\* Lines 113-115: sf.write.
FullAudioWrite ==
  /\ pc = "fa_place"
  /\ i > Len(sentences)
  /\ pc' = "fa_done"
  /\ UNCHANGED << cfgv, reference_audio, bgm_path, i, synv, rawv, seg_file,
                  audio_segments, success_count, asmv, result, otherv >>

\* mix_with_bgm (lines 117-139): amix with duration=longest, the output
\* lasts as long as the longer input.  Past the end of the speech track it
\* holds the background alone.  ffmpeg runs without check=True: when it
\* fails no file is written and True is returned all the same.
MixWithBgm(speech, n, ok) ==
  IF ok
    THEN [samples |-> [x \in 1..Max(Len(speech), n) |->
                         IF x <= Len(speech) THEN speech[x] ELSE {}],
          bgm |-> TRUE, exists |-> TRUE]
    ELSE NoTrack

\* main(), lines 172-174: the file at BGM_PATH exists.
FullAudioMix ==
  /\ pc = "fa_done"
  /\ bgm_len > 0
  /\ \E ok \in BOOLEAN : mixed_track' = MixWithBgm(full_wave, bgm_len, ok)
  /\ pc' = "fa_end"
  /\ UNCHANGED << cfgv, reference_audio, bgm_path, i, synv, rawv, seg_file,
                  audio_segments, success_count, total_duration,
                  asm_segments, k, audio_data, placed, speech_track,
                  speech_only, encoded, result, otherv >>

\* main(), lines 175-176: no file at BGM_PATH.
FullAudioNoBgm ==
  /\ pc = "fa_done"
  /\ bgm_len = 0
  /\ pc' = "fa_end"
  /\ UNCHANGED << cfgv, reference_audio, bgm_path, i, synv, rawv, seg_file,
                  audio_segments, success_count, asmv, result, otherv >>

NextFullAudio ==
  \/ FullAudioStart
  \/ FullAudioPlace
  \/ FullAudioWrite
  \/ FullAudioMix
  \/ FullAudioNoBgm

SpecFullAudio == InitFullAudio /\ [][NextFullAudio]_vars


\* =========================================================================
\* synthesize alone: one call of _generate_with_voice_cloning or of
\* _generate_with_preset_voice
\* =========================================================================
\* The windows whose length is the target_duration of the call: none (0),
\* short ones, and one of 20 s, for which a clip of more than 30 s is still
\* inside the ratio band.
HintWindows == { <<6, 6>>, <<0, 17>>, <<198, 220>>, <<0, 20 * TicksPerSec>> }

InitSynthesize ==
  /\ \E w \in HintWindows : sentences = << Sentence(w, "ok") >>
  /\ voice_mode \in { "clone", "preset" }
  /\ keep_background = FALSE
  /\ pc = "synth"
  /\ reference_audio = (voice_mode = "clone")
  /\ bgm_path = FALSE
  /\ i = 1
  /\ attempt = 0
  /\ requests = 0
  /\ ever_audio = FALSE
  /\ synth_ret = "none"
  /\ duration = -1
  /\ raw_output = NoFile
  /\ raw_made = {}
  /\ seg_file = [j \in 1..MaxSentences |-> NoFile]
  /\ audio_segments = <<>>
  /\ success_count = 0
  /\ total_duration = 0
  /\ asm_segments = <<>>
  /\ k = 1
  /\ audio_data = <<>>
  /\ placed = {}
  /\ speech_track = NoTrack
  /\ mixed_track = NoTrack
  /\ speech_only = "speech_only.wav"
  /\ encoded = NoTrack
  /\ result = "running"
  /\ InitOther

NextSynthesize ==
  \/ SynthError
  \/ SynthNoAudio
  \/ SynthAudioClone
  \/ SynthAudioPreset

SpecSynthesize == InitSynthesize /\ [][NextSynthesize]_vars


\* =========================================================================
\* step2_translate.py: the word budget of match_timestamps_and_adjust
\* =========================================================================
MaxWordTenths == 60

\* Source sentences of 0.0 s to MaxWordTenths / 10 s, one whose end lies
\* before its start, and one without text.
WordPool ==
  { Sentence(<<0, n * (TicksPerSec \div 10)>>, "ok") : n \in 0..MaxWordTenths }
    \cup { Sentence(<<42, 20>>, "ok"), Sentence(<<0, TicksPerSec>>, "blank") }

InitWords ==
  /\ sentences \in { << s >> : s \in WordPool }
  /\ voice_mode = "preset"
  /\ keep_background = FALSE
  /\ pc = "tw_ready"
  /\ InitLocals
  /\ al_target = 0
  /\ al_actual = 0
  /\ al_out = NoFile
  /\ ref_pick = 0
  /\ stats_failed = 0
  /\ translations = << 1 >>
  /\ translated = NoOutput
  /\ tmp_outputs = FALSE
  /\ full_wave = <<>>
  /\ InitExtra

\* max(int(duration * 2.5), 3) for a duration of d ticks (line 261).
TargetWords(d) == Max(PyInt(5 * d, 2 * TicksPerSec), 3)

\* Lines 254-255: a sentence without text or without a positive duration
\* is passed over.
WordsSkip ==
  /\ pc = "tw_ready"
  /\ sentences[i].text = "blank" \/ Duration(sentences[i]) <= 0
  /\ pc' = "tw_skipped"
  /\ UNCHANGED << cfgv, reference_audio, bgm_path, i, synv, rawv, seg_file,
                  audio_segments, success_count, asmv, result, otherv >>

\* Lines 257-261.
WordsBudget ==
  /\ pc = "tw_ready"
  /\ ~(sentences[i].text = "blank" \/ Duration(sentences[i]) <= 0)
  /\ target_words' = TargetWords(Duration(sentences[i]))
  /\ pc' = "tw_done"
  /\ UNCHANGED << cfgv, reference_audio, bgm_path, i, synv, rawv, seg_file,
                  audio_segments, success_count, asmv, result, al_target,
                  al_actual, al_out, ref_pick, stats_failed, translations,
                  translated, tmp_outputs, full_wave, bgm_len, al_out_c,
                  appv >>

NextWords ==
  \/ WordsSkip
  \/ WordsBudget

SpecWords == InitWords /\ [][NextWords]_vars

\* =========================================================================
\* app.py: the Streamlit app.  One action is one run of the script: the
\* block at the bottom of the file (lines 796-820), which resumes the
\* pipeline and then calls main().  st.rerun() ends the run at once and
\* asks for another one, in which no widget reports a user action.
\* =========================================================================
\* The initial values of the sidebar widgets, which are also the values
\* st.session_state.get falls back on (lines 809-817).
DefaultArgs ==
  [voice_mode |-> "clone", preset_voice |-> "female_american",
   bgm_volume |-> 18, bitrate |-> "192k", add_subs |-> TRUE,
   sub_style |-> "blurred_bar", keep_audio |-> FALSE]

\* The values of the sidebar widgets (lines 123-229) the user may have
\* chosen: the initial ones, each widget changed alone, and all changed.
AppOptions ==
  { DefaultArgs,
    [DefaultArgs EXCEPT !.voice_mode = "preset"],
    [DefaultArgs EXCEPT !.voice_mode = "preset", !.preset_voice = "male_british"],
    [DefaultArgs EXCEPT !.bgm_volume = 50],
    [DefaultArgs EXCEPT !.bitrate = "320k"],
    [DefaultArgs EXCEPT !.add_subs = FALSE],
    [DefaultArgs EXCEPT !.sub_style = "default"],
    [DefaultArgs EXCEPT !.keep_audio = TRUE],
    [voice_mode |-> "preset", preset_voice |-> "male_british",
     bgm_volume |-> 50, bitrate |-> "320k", add_subs |-> FALSE,
     sub_style |-> "default", keep_audio |-> TRUE] }

\* What the arguments of continue_after_translation_edit evaluate to: no
\* line of app.py stores one of these keys in st.session_state, and no
\* widget has a key, so every get returns its default.
StoredArgs(ss) == DefaultArgs

Waiting(ss) ==
  ss.waiting_for_transcript_edit \/ ss.waiting_for_translation_edit

\* A processing step starts in the session state ss.
Started(name, ss) == [step |-> name, waiting |-> Waiting(ss)]

\* The outcome of a part of the script: the session state it leaves, whether
\* it ended the run with st.rerun(), and the steps it started.
Outcome(ss, rerun, ran) == [ss |-> ss, rerun |-> rerun, ran |-> ran]

\* Lines 798-801.
ShouldContinue(ss) ==
  /\ ss.processing_stage >= 3
  /\ ~ss.waiting_for_transcript_edit
  /\ ~ss.waiting_for_translation_edit
  /\ ~ss.processing_complete

\* A variant of PauseForTranscriptEdit for the check of C30: the pipeline
\* goes on to the translation without the edit step.
PauseForTranscriptEdit_Through(ss) ==
  [ss EXCEPT !.processing_stage = 4]

\* Lines 642-643.
PauseForTranscriptEdit(ss) ==
  [ss EXCEPT !.processing_stage = 3, !.waiting_for_transcript_edit = TRUE]

\* process_video (lines 596-651): extraction, transcription, then the pause.
\* A failed step returns (an exception is caught at line 647).
ProcessVideo(ss, extract_ok, transcribe_ok) ==
  LET s1 == [ss EXCEPT !.processing_stage = 1]
      s2 == [ss EXCEPT !.processing_stage = 2]
  IN  IF ~extract_ok
        THEN Outcome(s1, FALSE, << Started("extract", s1) >>)
      ELSE IF ~transcribe_ok
        THEN Outcome(s2, FALSE,
                     << Started("extract", s1), Started("transcribe", s2) >>)
      ELSE Outcome(PauseForTranscriptEdit([s2 EXCEPT !.transcript = TRUE]),
                   TRUE,
                   << Started("extract", s1), Started("transcribe", s2) >>)

\* continue_after_transcript_edit (lines 654-697).
ContinueAfterTranscriptEdit(ss, translate_ok) ==
  LET s4 == [ss EXCEPT !.processing_stage = 4]
  IN  IF translate_ok
        THEN Outcome([s4 EXCEPT !.translation = TRUE,
                                !.processing_stage = 5,
                                !.waiting_for_translation_edit = TRUE],
                     TRUE, << Started("translate", s4) >>)
        ELSE Outcome(s4, FALSE, << Started("translate", s4) >>)

\* continue_after_translation_edit (lines 700-792).
ContinueAfterTranslationEdit(ss, generate_ok, compose_ok) ==
  LET s6 == [ss EXCEPT !.processing_stage = 6]
      s7 == [ss EXCEPT !.processing_stage = 7]
  IN  IF ~generate_ok
        THEN Outcome(s6, FALSE, << Started("generate", s6) >>)
      ELSE IF ~compose_ok
        THEN Outcome(s7, FALSE,
                     << Started("generate", s6), Started("compose", s7) >>)
      ELSE Outcome([s7 EXCEPT !.output_video_path = TRUE,
                              !.processing_stage = 8,
                              !.processing_complete = TRUE],
                   TRUE,
                   << Started("generate", s6), Started("compose", s7) >>)

\* The buttons of edit_transcript_interface (lines 441-483).
EditTranscriptInterface(ss, ev) ==
  IF ev = "save_transcript"
    THEN Outcome([ss EXCEPT !.transcript_edited = TRUE,
                            !.waiting_for_transcript_edit = FALSE,
                            !.processing_stage = 4], TRUE, <<>>)
  ELSE IF ev = "skip_transcript"
    THEN Outcome([ss EXCEPT !.waiting_for_transcript_edit = FALSE,
                            !.processing_stage = 4], TRUE, <<>>)
  ELSE Outcome(ss, FALSE, <<>>)

\* The buttons of edit_translation_interface (lines 553-592).
EditTranslationInterface(ss, ev) ==
  IF ev = "save_translation"
    THEN Outcome([ss EXCEPT !.translation_edited = TRUE,
                            !.waiting_for_translation_edit = FALSE,
                            !.processing_stage = 6], TRUE, <<>>)
  ELSE IF ev = "skip_translation"
    THEN Outcome([ss EXCEPT !.waiting_for_translation_edit = FALSE,
                            !.processing_stage = 6], TRUE, <<>>)
  ELSE Outcome(ss, FALSE, <<>>)

\* The branch of main() that draws the main column (lines 257-337).
View(ss) ==
  IF ss.processing_complete /\ ss.output_video_path THEN "result"
  ELSE IF ss.waiting_for_transcript_edit THEN "edit_transcript"
  ELSE IF ss.waiting_for_translation_edit THEN "edit_translation"
  ELSE "upload"

\* main() (lines 114-337) handling the user action ev; up: the uploader
\* holds a file.  "Translate New Video" deletes every key, and the next run
\* starts from init_session_state.
Main(ss, ev, up, extract_ok, transcribe_ok) ==
  IF View(ss) = "result"
    THEN IF ev = "new_video" THEN Outcome(InitSessionState, TRUE, <<>>)
         ELSE Outcome(ss, FALSE, <<>>)
  ELSE IF View(ss) = "edit_transcript" THEN EditTranscriptInterface(ss, ev)
  ELSE IF View(ss) = "edit_translation" THEN EditTranslationInterface(ss, ev)
  ELSE IF ~up THEN Outcome(ss, FALSE, <<>>)
  ELSE IF ev = "start"
    THEN ProcessVideo([ss EXCEPT !.video_path = TRUE],
                      extract_ok, transcribe_ok)
  ELSE Outcome([ss EXCEPT !.video_path = TRUE], FALSE, <<>>)

\* The block of lines 796-818, before main() is called.
Resume(ss, ok1, ok2) ==
  IF ShouldContinue(ss) /\ ss.processing_stage = 4
    THEN ContinueAfterTranscriptEdit(ss, ok1)
  ELSE IF ShouldContinue(ss) /\ ss.processing_stage = 6
    THEN ContinueAfterTranslationEdit(ss, ok1, ok2)
  ELSE Outcome(ss, FALSE, <<>>)

\* One run of the script for the user action ev, made with the sidebar
\* showing opts and the uploader holding a file or not (up); ok3 and ok4
\* are the outcomes of extraction and transcription, should they run.
RunScript(ev, opts, up, ok3, ok4) ==
  \E ok1 \in BOOLEAN, ok2 \in BOOLEAN :
    LET r == Resume(session_state, ok1, ok2)
        m == IF r.rerun THEN Outcome(r.ss, TRUE, <<>>)
             ELSE Main(r.ss, ev, up, ok3, ok4)
    IN  /\ session_state' = m.ss
        /\ app_ran' = r.ran \o m.ran
        /\ generate_args' =
             IF ShouldContinue(session_state)
                  /\ session_state.processing_stage = 6
               THEN StoredArgs(session_state)
               ELSE generate_args
        /\ process_args' =
             IF ~r.rerun /\ View(r.ss) = "upload" /\ up /\ ev = "start"
               THEN opts
               ELSE process_args
        /\ pc' = IF m.rerun THEN "app_rerun" ELSE "app_idle"
        /\ app_event' = ev
        /\ uploaded_file' = up
        /\ UNCHANGED << cfgv, reference_audio, bgm_path, i, synv, rawv,
                        seg_file, audio_segments, success_count, asmv,
                        result, al_target, al_actual, al_out, ref_pick,
                        stats_failed, translations, translated, tmp_outputs,
                        full_wave, target_words, bgm_len, al_out_c >>

\* The run asked for by st.rerun().
AppRerun ==
  /\ pc = "app_rerun"
  /\ RunScript("none", DefaultArgs, uploaded_file, TRUE, TRUE)

\* The user changes a sidebar widget: a run without a button pressed.
AppWidget ==
  /\ pc = "app_idle"
  /\ RunScript("none", DefaultArgs, uploaded_file, TRUE, TRUE)

\* The user puts a file into the uploader.
AppUpload ==
  /\ pc = "app_idle"
  /\ View(session_state) = "upload"
  /\ ~uploaded_file
  /\ RunScript("upload", DefaultArgs, TRUE, TRUE, TRUE)

\* The user presses Start Translation.
AppStart ==
  /\ pc = "app_idle"
  /\ View(session_state) = "upload"
  /\ uploaded_file
  /\ \E opts \in AppOptions, ok3 \in BOOLEAN, ok4 \in BOOLEAN :
       RunScript("start", opts, TRUE, ok3, ok4)

\* The user submits the transcript form.
AppTranscriptForm ==
  /\ pc = "app_idle"
  /\ View(session_state) = "edit_transcript"
  /\ \E ev \in { "save_transcript", "skip_transcript" } :
       RunScript(ev, DefaultArgs, uploaded_file, TRUE, TRUE)

\* The user submits the translation form.
AppTranslationForm ==
  /\ pc = "app_idle"
  /\ View(session_state) = "edit_translation"
  /\ \E ev \in { "save_translation", "skip_translation" } :
       RunScript(ev, DefaultArgs, uploaded_file, TRUE, TRUE)

\* The user presses Translate New Video.
AppNewVideo ==
  /\ pc = "app_idle"
  /\ View(session_state) = "result"
  /\ RunScript("new_video", DefaultArgs, uploaded_file, TRUE, TRUE)

InitApp ==
  /\ sentences = <<>>
  /\ voice_mode = "clone"
  /\ keep_background = TRUE
  /\ pc = "app_idle"
  /\ InitLocals
  /\ InitOther

NextApp ==
  \/ AppRerun
  \/ AppWidget
  \/ AppUpload
  \/ AppStart
  \/ AppTranscriptForm
  \/ AppTranslationForm
  \/ AppNewVideo

SpecApp == InitApp /\ [][NextApp]_vars

\* =========================================================================
\* Properties
\* =========================================================================
Abs(v) == IF v < 0 THEN -v ELSE v

\* The timeline is assembled: every segment was handled.
Assembled == pc \in { "mix", "convert", "done" }

\* The buffer indices (1-based) of the samples in the window of sentence s.
WindowSamples(s) ==
  { x \in 1..Len(audio_data) : ToSamples(s.start) < x /\ x <= ToSamples(s.end) }

NonOverlapping(s, t) == s.end <= t.start \/ t.end <= s.start

\* C1: whatever failed, the assembled speech track of a non-empty sentence
\* list has exactly ceil(totalDuration * sampleRate) samples.
C1_TimelineLength ==
  speech_track.exists =>
    Len(speech_track.samples) = CeilSamples(total_duration)

\* C2: placing a segment never changes the length of the timeline buffer.
C2_PlacementKeepsLength ==
  [][pc = "place" => Len(audio_data') = Len(audio_data)]_vars

\* C3 (as stated): a segment reported as aligned whose pre-alignment ratio
\* was within [0.5, 2.2] has |actualDuration / targetDuration - 1| <= 0.1,
\* and a padded clip has exactly the target duration.
C3_PreBand ==
  /\ al_actual > 0
  /\ \/ 2 * al_target >= al_actual /\ 5 * al_target <= 11 * al_actual
     \/ 2 * al_actual >= al_target /\ 5 * al_actual <= 11 * al_target

C3_Original ==
  (pc = "al_done" /\ al_out # NoFile) =>
    /\ C3_PreBand => 10 * Abs(al_out.dur - al_target) <= al_target
    /\ al_out.how = "pad" => al_out.dur = al_target

\* C3 (amended): a segment reported as aligned whose pre-alignment ratio
\* was within [0.5, 2.2] has |targetDuration / actualDuration - 1| <= 0.1,
\* and a clip is padded only for targetDuration / actualDuration >= 2.2 and
\* then has exactly the target duration.
C3_AlignedWithinTolerance ==
  (pc = "al_done" /\ al_out # NoFile) =>
    /\ C3_PreBand =>
         /\ 9 * al_out.dur <= 10 * al_target
         /\ 10 * al_target <= 11 * al_out.dur
    /\ al_out.how = "pad" =>
         /\ al_out.dur = al_target
         /\ 5 * al_target >= 11 * al_actual

\* A clip longer than its target was accepted unchanged.
C3_Witness ==
  /\ pc = "al_done"
  /\ al_out.how = "copy"
  /\ al_out.dur > al_target
  /\ C3_PreBand

\* C4: synthesize issues at most its retry budget of requests (5 in clone
\* mode, 10 in preset mode): each iteration issues one request and either
\* moves on to the next iteration, of which there are fewer than the budget,
\* or returns a clip or a failure.
C4_RetryBounded ==
  /\ [](/\ requests <= MaxRetries
        /\ pc = "synth" => requests = attempt /\ attempt < MaxRetries)
  /\ [][pc = "synth" =>
          /\ requests' = requests + 1
          /\ \/ pc' = "synth" /\ attempt' = attempt + 1 /\ synth_ret' = "none"
             \/ pc' = "align" /\ synth_ret' = "true"
             \/ pc' = "loop" /\ synth_ret' = "false"]_vars

\* The budget of preset mode is used up and synthesize returned a failure.
C4_Witness ==
  /\ voice_mode = "preset"
  /\ synth_ret = "false"
  /\ requests = PRESET_MAX_RETRIES

\* C5: synthesize signals a failure only if no attempt ever returned audio.
C5_FailureOnlyWithoutAudio ==
  synth_ret = "false" => ~ever_audio

\* C6: for placed segments a # b with non-overlapping sentence windows, no
\* sample inside the window of a comes from the clip of b.
C6_NoCrossWindowData ==
  Assembled =>
    \A a \in placed, b \in placed :
      (a # b /\ NonOverlapping(sentences[a], sentences[b])) =>
        \A x \in WindowSamples(sentences[a]) : Abs(audio_data[x]) # b

\* C7: the window of a sentence whose clip was not placed (synthesis or
\* alignment failed, or the file could not be read) is silence. Stated for
\* a sentence whose window overlaps no other sentence's window.
C7_FailedWindowsSilent ==
  Assembled =>
    \A a \in 1..Len(sentences) :
      ( /\ sentences[a].text # "failed"
        /\ a \notin placed
        /\ \A b \in 1..Len(sentences) :
              b # a => NonOverlapping(sentences[a], sentences[b]) ) =>
        \A x \in WindowSamples(sentences[a]) : audio_data[x] <= 0

\* C8: a per-sentence failure never ends the run: from the sentence loop
\* main() goes to the next sentence, to the synthesis of a sentence, or on
\* to the assembly of the track, also when every sentence failed.
C8_LoopGoesOnToAssembly ==
  [][pc = "m_loop" => pc' \in { "m_loop", "m_synth", "m_place" }]_vars

\* C9: the reference is the lowest-index sentence with 3.0 <= duration <=
\* 6.0 and a source text longer than 8 characters; if there is none, it is a
\* sentence of maximal duration.
C9_Qualifies(s) ==
  /\ Duration(s) >= 3 * TicksPerSec
  /\ Duration(s) <= 6 * TicksPerSec
  /\ s.text_len >= 9

C9_ReferenceChoice ==
  pc = "ref_done" =>
    LET q == { j \in 1..Len(sentences) : C9_Qualifies(sentences[j]) }
    IN  /\ ref_pick \in 1..Len(sentences)
        /\ IF q # {}
             THEN ref_pick \in q /\ \A j \in q : ref_pick <= j
             ELSE \A j \in 1..Len(sentences) :
                    Duration(sentences[j]) <= Duration(sentences[ref_pick])

\* A qualifying sentence was chosen that is not the first of the list and
\* not the longest.
C9_Witness ==
  /\ pc = "ref_done"
  /\ ref_pick > 1
  /\ C9_Qualifies(sentences[ref_pick])
  /\ \E j \in 1..Len(sentences) :
       Duration(sentences[j]) > Duration(sentences[ref_pick])

\* C10: when no mixed track was produced (no background track, or the mix
\* failed) the track encoded is the assembled speech track, and generate()
\* returns True.
C10_MixFallback ==
  [][pc = "convert" =>
       /\ result' = "true"
       /\ (~(keep_background /\ bgm_path) \/ ~mixed_track.exists) =>
            encoded' = [samples |-> audio_data, bgm |-> FALSE, exists |-> TRUE]]_vars

\* A background track was there, the mix failed, the speech track was
\* encoded.
C10_Witness ==
  /\ pc = "done"
  /\ result = "true"
  /\ keep_background /\ bgm_path
  /\ encoded.exists /\ ~encoded.bgm

\* C11: _assemble_audio_timeline called with a negative total_duration
\* returns False and writes no track.
C11_NegativeDurationFails ==
  (pc = "as_done" /\ total_duration < 0) =>
    (result = "false" /\ ~speech_track.exists)

\* C12: an exception raised by a TTS call is caught and, while attempts
\* remain, retried; stated for generate_female_voice, whose handler is
\* entered with `attempt` requests issued.
C12_ErrorsRetried ==
  [][(/\ pc \in { "fv_except_timeout", "fv_except_busy", "fv_except_other" }
      /\ attempt < FEMALE_MAX_RETRIES) => pc' = "fv_loop"]_vars

\* C13: a clone-mode run for which no reference sample was obtained does
\* not complete successfully.
C13_NoReferenceFailsRun ==
  (pc = "done" /\ voice_mode = "clone" /\ ~reference_audio) =>
    result # "true"

\* C14: no record of the translated list has an index beyond
\* min(len(source), len(translations)), and the record of sentence j carries
\* translation j.
C14_TruncatedToMin ==
  pc \in { "tr_module_done", "tr_script_done" } =>
    \A j \in 1..Len(translated) :
      /\ translated[j].src <= Min(Len(sentences), Len(translations))
      /\ translated[j].trans = translated[j].src

\* C15: synthesis is attempted only for a sentence with end - start > 0.
C15_PositiveDurationAtSynthesis ==
  pc = "synth" => Duration(sentences[i]) > 0

\* C16: when generate() returned True no intermediate audio file is left:
\* no raw clip, no temporary clip of an attempt, no aligned segment, no
\* speech-only or mixed track.
C16_IntermediatesDeleted ==
  (pc = "done" /\ result = "true") =>
    /\ raw_output = NoFile
    /\ raw_made = {}
    /\ \A j \in 1..MaxSentences : seg_file[j] = NoFile
    /\ ~speech_track.exists
    /\ ~mixed_track.exists
    /\ ~tmp_outputs

\* C17: when the synthesizer returned True for sentence i, the output path
\* of sentence i holds the clip of that request.
C17_AcceptedClipAtOutputPath ==
  (pc = "align" /\ synth_ret = "true") =>
    /\ raw_output # NoFile
    /\ raw_output.src = i
    /\ raw_output.how = "tts"

\* C18: with ratio = target / actual, _align_audio_duration fails for
\* actual <= 0, uses the clip unchanged iff 0.9 <= ratio <= 1.1, otherwise
\* changes the tempo to hit the target iff ratio < 2.2, otherwise pads the
\* end with target - actual of silence; nothing is truncated.  A tempo change
\* or a padding whose tool fails leaves no file.
C18_ExactlyOneAction ==
  pc = "al_done" =>
    /\ al_out.how # "truncate"
    /\ IF al_actual <= 0 THEN al_out = NoFile
       ELSE IF 10 * al_target >= 9 * al_actual /\ 10 * al_target <= 11 * al_actual
         THEN /\ al_out.how = "copy"
              /\ al_out.dur = al_actual
              /\ al_out.voiced = al_actual
       ELSE IF 5 * al_target < 11 * al_actual
         THEN \/ al_out = NoFile
              \/ al_out.how = "tempo" /\ al_out.dur = al_target
       ELSE \/ al_out = NoFile
            \/ /\ al_out.how = "pad"
               /\ al_out.voiced = al_actual
               /\ al_out.dur - al_out.voiced = al_target - al_actual

\* A clip at ratio 2.2 exactly was padded.
C18_Witness ==
  /\ pc = "al_done"
  /\ al_actual > 0
  /\ 5 * al_target = 11 * al_actual
  /\ al_out.how = "pad"

\* C19: placement overwrites: a sample covered by the clips of two or more
\* placed segments holds the sample of the one that starts last, and only
\* that.  Stated for assemble_full_audio of step3_C_align_audio.py.
C19_Covering(x) ==
  { j \in placed :
      /\ ToSamples(sentences[j].start) < x
      /\ x <= ToSamples(sentences[j].start) + Frames(seg_file[j]) }

C19_LaterSegmentWins ==
  pc = "fa_done" =>
    \A x \in 1..Len(full_wave) :
      \A b \in C19_Covering(x) :
        ( /\ Cardinality(C19_Covering(x)) >= 2
          /\ \A a \in C19_Covering(x) \ { b } :
               sentences[a].start < sentences[b].start ) =>
          full_wave[x] = { FrameValue(seg_file[b], x - ToSamples(sentences[b].start)) }

\* C20: while attempts remain, an iteration of synthesize that received a
\* clip and has a target_duration > 0 returns True iff the clip lasts at
\* most 30 s and 0.5 <= duration / target_duration <= 2.2, and goes to the
\* next attempt otherwise; a clip of more than 30 s is never accepted and
\* leads to the next attempt with or without a target_duration.
C20_Retried ==
  /\ pc' = "synth"
  /\ attempt' = attempt + 1
  /\ synth_ret' = "none"

C20_AcceptIffWithinLimits ==
  [][(/\ pc = "synth"
      /\ attempt < MaxRetries - 1
      /\ duration' >= 0) =>
       /\ Target > 0 =>
            IF /\ duration' <= 30 * TicksPerSec
               /\ 2 * duration' >= Target
               /\ 5 * duration' <= 11 * Target
              THEN pc' = "align" /\ synth_ret' = "true"
              ELSE C20_Retried
       /\ duration' > 30 * TicksPerSec => C20_Retried]_vars

\* A clip inside the limits is accepted after an earlier clip was retried.
C20_Witness ==
  /\ pc = "align"
  /\ synth_ret = "true"
  /\ Target > 0
  /\ attempt > 0
  /\ attempt < MaxRetries - 1
  /\ ever_audio
  /\ duration > 0
  /\ 2 * duration >= Target
  /\ 5 * duration <= 11 * Target

\* C21: while attempts remain, a response without audio, or with audio of
\* measured duration 0, leads to another attempt: synthesis does not end
\* with a failure, and no clip of duration 0 is accepted.  Stated for
\* generate_with_voice_cloning of step3_generate_audio.py.
C21_EmptyResponseRetried ==
  [][(pc = "m_synth" /\ attempt < SCRIPT_MAX_RETRIES - 1) =>
       /\ pc' # "m_loop"
       /\ pc' = "m_check" => GetAudioDuration(raw_output') > 0]_vars

\* C22: an alignment step on a usable clip always yields a segment for the
\* sentence: when the tempo or padding tool fails the unmodified clip is
\* used, and the sentence is handed to the assembler all the same.
C22_ToolFailureKeepsSentence ==
  [][(pc = "align" /\ Target > 0 /\ GetAudioDuration(raw_output) > 0) =>
       /\ seg_file'[i] # NoFile
       /\ Len(audio_segments') = Len(audio_segments) + 1]_vars

\* C23: for segments with pairwise distinct start times the assembled
\* timeline is the same for every ordering of the segment list handed to
\* _assemble_audio_timeline.
C23_Orderings(segs) ==
  { [j \in 1..Len(segs) |-> segs[p[j]]] :
      p \in { q \in [1..Len(segs) -> 1..Len(segs)] :
                \A a, b \in 1..Len(segs) : a # b => q[a] # q[b] } }

C23_DistinctStarts(segs) ==
  \A a, b \in 1..Len(segs) : a # b => segs[a].start # segs[b].start

C23_OrderIndependent ==
  (pc = "as_done" /\ result = "true" /\ C23_DistinctStarts(audio_segments)) =>
    \A segs \in C23_Orderings(audio_segments) :
      AssembleAudioTimeline(segs, total_duration, placed) = speech_track.samples

\* Two overlapping clips were handed over later start first, and placing them
\* in that order would have given another timeline.
C23_Witness ==
  /\ pc = "as_done"
  /\ result = "true"
  /\ Len(audio_segments) = 2
  /\ audio_segments[1].start > audio_segments[2].start
  /\ placed = { 1, 2 }
  /\ PlaceAll(audio_segments, 1, placed, Zeros(ToSamples(total_duration)))
       # speech_track.samples

\* C24: the word budget of a sentence is max(r, 3) for an integer r nearest
\* to 2.5 times its duration in seconds.
C24_RoundedWordBudget ==
  pc = "tw_done" =>
    \E r \in 0..(3 * MaxWordTenths) :
      /\ Abs(2 * TicksPerSec * r - 5 * Duration(sentences[i])) <= TicksPerSec
      /\ target_words = Max(r, 3)

\* C25: the mixed track has the duration of the speech track, a longer
\* background never extends it.  Stated for mix_with_bgm of
\* step3_C_align_audio.py.
C25_MixHasSpeechLength ==
  (pc = "fa_end" /\ mixed_track.exists) =>
    Len(mixed_track.samples) = Len(full_wave)

\* C26: at the end of the per-sentence loop of generate() the success count
\* equals the number of segments handed to the assembler.
C26_SuccessEqualsSegments ==
  (pc = "loop" /\ i > Len(sentences)) => success_count = Len(audio_segments)

\* C27: while the timeline is assembled every sentence of the run is behind
\* the per-sentence loop: no request is in flight, no synthesize call is
\* open and no raw clip waits for its alignment.
C27_AssemblyAfterLoop ==
  pc = "place" =>
    /\ i > Len(sentences)
    /\ attempt = 0
    /\ requests = 0
    /\ synth_ret = "none"
    /\ raw_output = NoFile

\* Assembly of a run in which two sentences were synthesized and aligned.
C27_Witness ==
  /\ pc = "place"
  /\ Len(sentences) = 2
  /\ success_count = 2
  /\ Len(asm_segments) = 2

\* C28: on the same clip of positive duration and the same target, the
\* aligner of step3_C_align_audio.py and the aligner of TTSGenerator take
\* the same action with the same result: the clip unchanged, a tempo change
\* to the same duration, or the same amount of silence appended.
C28_Action(f) == IF f.how \in { "copy", "rename" } THEN "unchanged" ELSE f.how

C28_AlignersAgree ==
  (pc = "al_both" /\ al_actual > 0 /\ al_out # NoFile /\ al_out_c # NoFile) =>
    /\ C28_Action(al_out) = C28_Action(al_out_c)
    /\ al_out.dur = al_out_c.dur
    /\ al_out.voiced = al_out_c.voiced

\* C29: the options continue_after_translation_edit is called with are the
\* options the user had selected when pressing Start Translation.
C29_OptionsSurviveEdits ==
  generate_args # NoArgs => generate_args = process_args

\* A processing step called name starts in the run that this step takes.
C30_Starts(name) == \E n \in 1..Len(app_ran') : app_ran'[n].step = name

\* C30: across all runs of the script the two waiting flags are never both
\* set; no processing step starts while one of them is set; the translation
\* starts only at stage 4, which is entered only by saving or skipping the
\* transcript edit; the audio generation starts only at stage 6, which is
\* entered only by saving or skipping the edit of a translation that
\* succeeded; and the translation edit is waited for only after a
\* translation that succeeded in the same run.
C30_EditsGateThePipeline ==
  [][/\ ~(/\ session_state'.waiting_for_transcript_edit
          /\ session_state'.waiting_for_translation_edit)
     /\ \A n \in 1..Len(app_ran') : ~app_ran'[n].waiting
     /\ C30_Starts("translate") =>
          session_state.processing_stage = 4 /\ ~Waiting(session_state)
     /\ C30_Starts("generate") =>
          /\ session_state.processing_stage = 6
          /\ session_state.translation
          /\ ~Waiting(session_state)
     /\ (session_state'.processing_stage = 4
           /\ session_state.processing_stage # 4) =>
          /\ session_state.waiting_for_transcript_edit
          /\ app_event' \in { "save_transcript", "skip_transcript" }
     /\ (session_state'.processing_stage = 6
           /\ session_state.processing_stage # 6) =>
          /\ session_state.waiting_for_translation_edit
          /\ session_state.translation
          /\ app_event' \in { "save_translation", "skip_translation" }
     /\ (session_state'.waiting_for_translation_edit
           /\ ~session_state.waiting_for_translation_edit) =>
          C30_Starts("translate") /\ session_state'.translation]_vars

\* The audio generation has started after a saved transcript edit and a
\* skipped translation edit.
C30_Witness ==
  /\ app_ran # <<>>
  /\ app_ran[1].step = "generate"
  /\ session_state.transcript_edited
  /\ ~session_state.translation_edited

====
